---- MODULE Spec2Model ----
(***************************************************************************)
(* easy-ucp: the checkout session state machine.                           *)
(*                                                                         *)
(* Two handler sets serve POST /checkout-sessions, PUT /checkout-sessions/ *)
(* {id} and POST /checkout-sessions/{id}/complete: the Express router of   *)
(* server/routes/ucp.js and the Remix route app/routes/api.ucp.v1.$.tsx.   *)
(* A behaviour is one deployment: `server` is fixed by Init and every      *)
(* request of the behaviour is served by that handler set against its      *)
(* table easy_ucp_checkout_sessions.  Every await on the store is one      *)
(* atomic step; between two awaits of one request any step of another      *)
(* request may run.                                                        *)
(***************************************************************************)
EXTENDS Integers, Sequences, FiniteSets, TLC

VARIABLES
    server,     \* "express" | "remix": the handler set of this deployment
    sessions,   \* table easy_ucp_checkout_sessions: session_id -> row
    reqs,       \* the requests in flight, one per slot
    clock,      \* Date.now() / source of fresh nanoid() values
    overlap,    \* per slot, for the properties: what its request ran beside
    stale,      \* per slot, for the properties: its session outlived a product
    merchants,  \* table easy_ucp_merchants: id -> row
    products,   \* table easy_ucp_products: its rows, in insertion order
    jobs,       \* the catalog requests in flight, one per slot
    orphans     \* for the properties: the sessions that outlived a product

checkout == <<server, sessions, reqs, clock, overlap, stale>>
catalog == <<merchants, products, jobs, orphans>>
vars == <<checkout, catalog>>

(***************************************************************************)
(* Bounds of the model.                                                    *)
(***************************************************************************)
\* order ids handed out in one behaviour
MaxOrders == 2

\* The requests in flight at one time, and the session ids create may hand
\* out.  Every statement on the table names one session_id, so the rows of
\* two sessions never meet; calls on the id 0 stand for calls on a session
\* that does not exist.
Slots == {1, 2}
SessionIds == {1}

\* The catalog requests in flight at one time, the merchants that register,
\* and the rows the products table may hold or be about to receive.
JobSlots == {1, 2}
MerchantIds == {1, 2}
MaxProducts == 3

\* const batchSize = 100 (ucp.js lines 492 and 594), scaled to the batches of
\* the model: a batch of two rows takes two inserts.
batchSize == 1
Servers == {"express", "remix"}

(***************************************************************************)
(* JavaScript values.  An optional value (an absent key, undefined, SQL    *)
(* NULL) is the empty set, a present value v is {v}.                       *)
(***************************************************************************)
NULL == {}
Some(v) == {v}
The(opt) == CHOOSE v \in opt : TRUE

\* `if (x)` on an optional value: the inputs hold no present falsy value
\* other than the ones Falsy names.
Falsy == {[js |-> "\"\""], [js |-> "0"], [js |-> "false"]}
Truthy(opt) == opt # NULL /\ opt \cap Falsy = {}

\* A request body's line_items: an array, or a value that is no array.
ArrayOf(elems) == [isArray |-> TRUE, elems |-> elems]
NotArray == [isArray |-> FALSE, elems |-> <<>>]

\* JSON.stringify / JSON.parse: the text of a value is not the value.
JSONstringify(v) == [json |-> v]
JSONparse(text) == text.json

(***************************************************************************)
(* Inputs.                                                                 *)
(***************************************************************************)
Widget == [id |-> "li_1", item |-> [id |-> "p1", title |-> "Widget", price |-> 2500], quantity |-> 2]
Gadget == [id |-> "li_2", item |-> [id |-> "p2", title |-> "Gadget", price |-> 999], quantity |-> 1]
Broken == [id |-> "li_3", item |-> [id |-> "p3", title |-> "Broken", price |-> 100], quantity |-> 0]

Ann == [email |-> "ann@example.com", first_name |-> "Ann"]
\* a buyer_info without an email ("" stands for an absent or empty email)
NoEmail == [email |-> "", first_name |-> "Bob"]
Home == [address1 |-> "1 Main St", city |-> "Oulu", province |-> "NO", country |-> "FI", zip |-> "90100"]
Token == [token |-> "tok_visa"]

LineItemsInputs ==
    {NULL, Some(NotArray), Some(ArrayOf(<<>>)), Some(ArrayOf(<<Widget>>)),
     Some(ArrayOf(<<Broken>>))}
\* a "status" key a client may add to a body
StatusInputs == {NULL, Some("completed"), Some("ready_for_complete")}

Body(li, b, s, p, st) ==
    [line_items |-> li, buyer_info |-> b, shipping_address |-> s,
     payment_method |-> p, status |-> st]
NoBody == Body(NULL, NULL, NULL, NULL, NULL)
FullBody(st) == Body(Some(ArrayOf(<<Gadget>>)), Some(Ann), Some(Home), Some(Token), st)

CreateBodies ==
    {Body(li, NULL, NULL, NULL, NULL) : li \in LineItemsInputs}
      \cup {Body(Some(ArrayOf(<<Widget>>)), NULL, NULL, NULL, Some("completed")),
            FullBody(Some("ready_for_complete"))}
\* one field at a time, the three at once (with and without an email), new
\* line items, everything with a status, and a status alone
UpdateBodies ==
    {Body(NULL, Some(Ann), NULL, NULL, NULL),
     Body(NULL, NULL, Some(Home), NULL, NULL),
     Body(NULL, NULL, NULL, Some(Token), NULL),
     Body(NULL, Some(Ann), Some(Home), Some(Token), NULL),
     Body(NULL, Some(NoEmail), Some(Home), Some(Token), NULL),
     Body(Some(ArrayOf(<<Gadget>>)), NULL, NULL, NULL, NULL),
     FullBody(Some("completed")),
     Body(NULL, NULL, NULL, NULL, Some("ready_for_complete"))}

(***************************************************************************)
(* app/lib/ucp/validation.ts: the zod schemas.  A schema yields            *)
(* [success, data]; data holds the keys the schema names and no other      *)
(* (zod strips unknown keys, among them a client's "status").              *)
(***************************************************************************)
LineItemSchema(i) == i.item.price > 0 /\ i.quantity > 0

LineItemArray(v) == v.isArray /\ \A k \in 1..Len(v.elems) : LineItemSchema(v.elems[k])

CheckoutSessionRequestSchema(body) ==
    [success |-> /\ body.line_items # NULL
                 /\ LineItemArray(The(body.line_items))
                 /\ Len(The(body.line_items).elems) >= 1,
     data |-> [line_items |-> body.line_items]]

BuyerInfoSchema(b) == b.email # ""

ShippingAddressSchema(a) ==
    DOMAIN a = {"address1", "city", "province", "country", "zip"}

CheckoutSessionUpdateSchema(body) ==
    [success |-> /\ body.line_items # NULL => LineItemArray(The(body.line_items))
                 /\ body.buyer_info # NULL => BuyerInfoSchema(The(body.buyer_info))
                 /\ body.shipping_address # NULL => ShippingAddressSchema(The(body.shipping_address)),
     data |-> [line_items |-> body.line_items, buyer_info |-> body.buyer_info,
               shipping_address |-> body.shipping_address,
               payment_method |-> body.payment_method]]

createUCPError(code, path, content, severity) ==
    [type |-> "error", code |-> code, path |-> path, content |-> content,
     severity |-> severity]

\* validateCheckoutStatus(session): session carries status and the three
\* optional values, already parsed.
validateCheckoutStatus(session) ==
    LET messages ==
            (IF ~Truthy(session.buyer_info) \/ The(session.buyer_info).email = ""
             THEN <<createUCPError("missing", "$.buyer.email", "Buyer email is required", "recoverable")>>
             ELSE <<>>)
            \o
            (IF ~Truthy(session.shipping_address)
             THEN <<createUCPError("missing", "$.shipping_address", "Shipping address is required", "requires_buyer_input")>>
             ELSE <<>>)
            \o
            (IF ~Truthy(session.payment_method)
             THEN <<createUCPError("missing", "$.payment_method", "Payment method is required", "requires_buyer_input")>>
             ELSE <<>>)
    IN [status |-> IF session.status = "completed" THEN "completed"
                   ELSE IF Len(messages) = 0 THEN "ready_for_complete"
                   ELSE "incomplete",
        messages |-> messages]

(***************************************************************************)
(* The table easy_ucp_checkout_sessions and its statements.                *)
(***************************************************************************)
Row(status, li, b, s, p, o) ==
    [status |-> status, line_items |-> li, buyer_info |-> b,
     shipping_address |-> s, payment_method |-> p, shopify_order_id |-> o]

\* The SET list of an UPDATE: a key is NULL when the statement does not set it.
NoUpdates ==
    [status |-> NULL, line_items |-> NULL, buyer_info |-> NULL,
     shipping_address |-> NULL, payment_method |-> NULL, shopify_order_id |-> NULL]

\* UPDATE ... SET updates WHERE session_id = id, on the row it matches.
SqlUpdate(row, updates) ==
    [status |-> IF updates.status = NULL THEN row.status ELSE The(updates.status),
     line_items |-> IF updates.line_items = NULL THEN row.line_items
                    ELSE The(updates.line_items),
     buyer_info |-> IF updates.buyer_info = NULL THEN row.buyer_info
                    ELSE updates.buyer_info,
     shipping_address |-> IF updates.shipping_address = NULL THEN row.shipping_address
                          ELSE updates.shipping_address,
     payment_method |-> IF updates.payment_method = NULL THEN row.payment_method
                        ELSE updates.payment_method,
     shopify_order_id |-> IF updates.shopify_order_id = NULL THEN row.shopify_order_id
                          ELSE updates.shopify_order_id]

\* SELECT * ... WHERE session_id = id .single(): the row, or null.
SelectSession(S, id) == IF id \in DOMAIN S THEN Some(S[id]) ELSE NULL

(***************************************************************************)
(* Requests and responses.                                                 *)
(***************************************************************************)
Resp(code, error, status, messages, order_id) ==
    [code |-> code, error |-> error, status |-> status, messages |-> messages,
     order_id |-> order_id]
NoResp == Resp(0, "", "", <<>>, NULL)

\* A request: its operation, position, path parameter and body, the handler's
\* local variables status, messages and orderId, and its response.
\* onCompleted records, for the properties, that the session was completed
\* when the request arrived; no handler reads it.
Request(op, pc, sid, body, onCompleted) ==
    [op |-> op, pc |-> pc, sid |-> sid, body |-> body,
     status |-> "", messages |-> <<>>, orderId |-> NULL,
     resp |-> NoResp, onCompleted |-> onCompleted]
Idle == Request("none", "idle", 0, NoBody, FALSE)

\* What one step of a request yields: the table, the clock and the request
\* (with pc = "done" and its response when the handler has returned).
Outcome(S, c, q, resp) == [sessions |-> S, clock |-> c, req |-> [q EXCEPT !.resp = resp]]
Returns(S, c, q, resp) == Outcome(S, c, [q EXCEPT !.pc = "done"], resp)

\* A statement on the store succeeds, or returns an error to its caller.
StoreResults == BOOLEAN

\* Date.now(): the clock's reading, which two requests may share.
DateNow(c) == {c, c + 1}
\* nanoid(): a value no earlier call produced.
nanoid(c) == {c + 1}

\* An unused session id: `ucp_${Date.now()}_${random}` and `chk_${nanoid()}`.
FreshSessionIds(S) ==
    LET unused == SessionIds \ DOMAIN S
    IN IF unused = {} THEN {} ELSE {CHOOSE id \in unused : \A other \in unused : id <= other}

(***************************************************************************)
(* server/routes/ucp.js: the Express handlers.                             *)
(***************************************************************************)
\* POST /api/ucp/v1/checkout-sessions
ExpressCreateRow(line_items) ==
    Row("incomplete", The(line_items), NULL, NULL, NULL, NULL)

\* The guard of line 231 without its length test: the guard CreateContract
\* has to tell from the real one.
ExpressLineItemsRefusedNoLength(line_items) ==
    ~Truthy(line_items) \/ ~The(line_items).isArray

\* line 231: !line_items || !Array.isArray(line_items) || line_items.length === 0
ExpressLineItemsRefused(line_items) ==
    ~Truthy(line_items) \/ ~The(line_items).isArray \/ Len(The(line_items).elems) = 0

ExpressCreate(S, c, q) ==
    LET line_items == q.body.line_items
    IN IF ExpressLineItemsRefused(line_items)
       THEN {Returns(S, c, q, Resp(400, "line_items is required and must be a non-empty array", "", <<>>, NULL))}
       ELSE {IF ok
             THEN Returns(S @@ (sessionId :> ExpressCreateRow(line_items)), c,
                          [q EXCEPT !.sid = sessionId],
                          Resp(201, "", "incomplete",
                               <<[type |-> "info", text |-> "Please provide buyer information"]>>, NULL))
             ELSE Returns(S, c, q, Resp(500, "Failed to create checkout session", "", <<>>, NULL))
             : sessionId \in FreshSessionIds(S), ok \in StoreResults}

\* A PUT that would take "status" from the body when it is there: the
\* handler StatusNeverFromClient has to tell from the real one.
ExpressUpdatesTrustingStatus(body) ==
    [NoUpdates EXCEPT
       !.buyer_info = IF Truthy(body.buyer_info) THEN body.buyer_info ELSE NULL,
       !.shipping_address = IF Truthy(body.shipping_address) THEN body.shipping_address ELSE NULL,
       !.payment_method = IF Truthy(body.payment_method) THEN body.payment_method ELSE NULL,
       !.status = IF body.status # NULL THEN body.status
                  ELSE IF Truthy(body.buyer_info) /\ Truthy(body.shipping_address)
                          /\ Truthy(body.payment_method)
                       THEN Some("ready_for_complete") ELSE NULL]

\* A variant of ExpressUpdates that sets the status from the body alone.
ExpressUpdatesResettingStatus(body) ==
    [NoUpdates EXCEPT
       !.buyer_info = IF Truthy(body.buyer_info) THEN body.buyer_info ELSE NULL,
       !.shipping_address = IF Truthy(body.shipping_address) THEN body.shipping_address ELSE NULL,
       !.payment_method = IF Truthy(body.payment_method) THEN body.payment_method ELSE NULL,
       !.status = IF Truthy(body.buyer_info) /\ Truthy(body.shipping_address)
                     /\ Truthy(body.payment_method)
                  THEN Some("ready_for_complete") ELSE Some("incomplete")]

\* PUT /api/ucp/v1/checkout-sessions/:id, lines 289-296
ExpressUpdates(body) ==
    [NoUpdates EXCEPT
       !.buyer_info = IF Truthy(body.buyer_info) THEN body.buyer_info ELSE NULL,
       !.shipping_address = IF Truthy(body.shipping_address) THEN body.shipping_address ELSE NULL,
       !.payment_method = IF Truthy(body.payment_method) THEN body.payment_method ELSE NULL,
       !.status = IF Truthy(body.buyer_info) /\ Truthy(body.shipping_address)
                     /\ Truthy(body.payment_method)
                  THEN Some("ready_for_complete") ELSE NULL]

\* PUT, lines 279-287: the select and the not-found return
ExpressUpdateRead(S, c, q) ==
    {LET session == IF ok THEN SelectSession(S, q.sid) ELSE NULL
     IN IF session = NULL
        THEN Returns(S, c, q, Resp(404, "Session not found", "", <<>>, NULL))
        ELSE Outcome(S, c, [q EXCEPT !.pc = "write"], NoResp)
     : ok \in StoreResults}

\* PUT, lines 289-312: the update and the response
ExpressUpdateWrite(S, c, q) ==
    {IF ok
     THEN LET updated == SqlUpdate(S[q.sid], ExpressUpdates(q.body))
          IN Returns([S EXCEPT ![q.sid] = updated], c, q,
                     Resp(200, "", updated.status, <<>>, NULL))
     ELSE Returns(S, c, q, Resp(500, "Internal server error", "", <<>>, NULL))
     : ok \in StoreResults}

\* POST /api/ucp/v1/checkout-sessions/:id/complete, lines 327-337
ExpressCompleteRead(S, c, q) ==
    {LET session == IF ok THEN SelectSession(S, q.sid) ELSE NULL
     IN IF session = NULL \/ The(session).status # "ready_for_complete"
        THEN Returns(S, c, q, Resp(400, "Not ready", "", <<>>, NULL))
        ELSE Outcome(S, now, [q EXCEPT !.pc = "write", !.orderId = Some(now)], NoResp)
     : ok \in StoreResults, now \in DateNow(c)}

\* A completion that looks its line items up again and, finding no product,
\* stores none.
ExpressCompleteWriteRepriced(S, c, q) ==
    {Returns(IF ok
             THEN [S EXCEPT ![q.sid] =
                      SqlUpdate(@, [NoUpdates EXCEPT !.status = Some("completed"),
                                                     !.line_items = Some(ArrayOf(<<>>)),
                                                     !.shopify_order_id = q.orderId])]
             ELSE S,
             c, q,
             Resp(200, "", "completed", <<[type |-> "success", text |-> "Order created"]>>, q.orderId))
     : ok \in StoreResults}

\* POST .../complete, lines 339-349: the update, whose error is not read
ExpressCompleteWrite(S, c, q) ==
    {Returns(IF ok
             THEN [S EXCEPT ![q.sid] =
                      SqlUpdate(@, [NoUpdates EXCEPT !.status = Some("completed"),
                                                     !.shopify_order_id = q.orderId])]
             ELSE S,
             c, q,
             Resp(200, "", "completed", <<[type |-> "success", text |-> "Order created"]>>, q.orderId))
     : ok \in StoreResults}

(***************************************************************************)
(* app/routes/api.ucp.v1.$.tsx: the Remix handlers.  The rows they write   *)
(* hold JSON text, which they parse back before validating.  trackEvent    *)
(* writes the analytics table only and swallows its error.                 *)
(***************************************************************************)
\* The optional values of a row, parsed (lines 144-149 and 198-203).
ParsedSession(row) ==
    [status |-> row.status,
     buyer_info |-> IF Truthy(row.buyer_info)
                    THEN Some(JSONparse(The(row.buyer_info))) ELSE NULL,
     shipping_address |-> IF Truthy(row.shipping_address)
                          THEN Some(JSONparse(The(row.shipping_address))) ELSE NULL,
     payment_method |-> IF Truthy(row.payment_method)
                        THEN Some(JSONparse(The(row.payment_method))) ELSE NULL]

\* handleCreateCheckout, lines 45-54: the row it inserts
RemixCreateRow(line_items) ==
    Row("incomplete", JSONstringify(The(line_items)), NULL, NULL, NULL, NULL)

handleCreateCheckout(S, c, q) ==
    LET validation == CheckoutSessionRequestSchema(q.body)
    IN IF ~validation.success
       THEN {Returns(S, c, q, Resp(400, "Invalid request", "", <<>>, NULL))}
       ELSE {IF ok
             THEN LET session == RemixCreateRow(validation.data.line_items)
                      v == validateCheckoutStatus(session)
                  IN Returns(S @@ (sessionId :> session), c,
                             [q EXCEPT !.sid = sessionId],
                             Resp(201, "", v.status, v.messages, NULL))
             ELSE Returns(S, c, q, Resp(500, "Failed to create session", "", <<>>, NULL))
             : sessionId \in FreshSessionIds(S), ok \in StoreResults}

\* handleUpdateCheckout, lines 123-136
RemixUpdates(data) ==
    [NoUpdates EXCEPT
       !.line_items = IF data.line_items # NULL
                      THEN Some(JSONstringify(The(data.line_items))) ELSE NULL,
       !.buyer_info = IF Truthy(data.buyer_info)
                      THEN Some(JSONstringify(The(data.buyer_info))) ELSE NULL,
       !.shipping_address = IF Truthy(data.shipping_address)
                            THEN Some(JSONstringify(The(data.shipping_address))) ELSE NULL,
       !.payment_method = IF Truthy(data.payment_method)
                          THEN Some(JSONstringify(The(data.payment_method))) ELSE NULL]

\* handleUpdateCheckout, lines 106-121: validation and the select
handleUpdateCheckoutRead(S, c, q) ==
    IF ~CheckoutSessionUpdateSchema(q.body).success
    THEN {Returns(S, c, q, Resp(400, "Invalid request", "", <<>>, NULL))}
    ELSE {LET session == IF ok THEN SelectSession(S, q.sid) ELSE NULL
          IN IF session = NULL
             THEN Returns(S, c, q, Resp(404, "Session not found", "", <<>>, NULL))
             ELSE Outcome(S, c, [q EXCEPT !.pc = "write"], NoResp)
          : ok \in StoreResults}

\* handleUpdateCheckout, lines 123-152: the update of the fields, the new
\* status, and the return when the status did not change
handleUpdateCheckoutWrite(S, c, q) ==
    {IF ok
     THEN LET updates == RemixUpdates(CheckoutSessionUpdateSchema(q.body).data)
              updatedSession == SqlUpdate(S[q.sid], updates)
              v == validateCheckoutStatus(ParsedSession(updatedSession))
              S2 == [S EXCEPT ![q.sid] = updatedSession]
          IN IF v.status # updatedSession.status
             THEN Outcome(S2, c, [q EXCEPT !.pc = "status", !.status = v.status,
                                           !.messages = v.messages], NoResp)
             ELSE Returns(S2, c, q, Resp(200, "", v.status, v.messages, NULL))
     ELSE Returns(S, c, q, Resp(500, "Failed to update session", "", <<>>, NULL))
     : ok \in StoreResults}

\* handleUpdateCheckout, lines 152-180: the update of the status, whose
\* result is not read, and the response
handleUpdateCheckoutStatus(S, c, q) ==
    {Returns(IF ok
             THEN [S EXCEPT ![q.sid] =
                      SqlUpdate(@, [NoUpdates EXCEPT !.status = Some(q.status)])]
             ELSE S,
             c, q, Resp(200, "", q.status, q.messages, NULL))
     : ok \in StoreResults}

\* handleCompleteCheckout, lines 191-214
handleCompleteCheckoutRead(S, c, q) ==
    {LET session == IF ok THEN SelectSession(S, q.sid) ELSE NULL
     IN IF session = NULL
        THEN Returns(S, c, q, Resp(404, "Session not found", "", <<>>, NULL))
        ELSE LET v == validateCheckoutStatus(ParsedSession(The(session)))
             IN IF v.status # "ready_for_complete"
                THEN Returns(S, c, q, Resp(400, "Session not ready for completion", "",
                                           v.messages, NULL))
                ELSE Outcome(S, id, [q EXCEPT !.pc = "write", !.orderId = Some(id)], NoResp)
     : ok \in StoreResults, id \in nanoid(c)}

\* handleCompleteCheckout, lines 216-242: the update, whose result is not read
handleCompleteCheckoutWrite(S, c, q) ==
    {Returns(IF ok
             THEN [S EXCEPT ![q.sid] =
                      SqlUpdate(@, [NoUpdates EXCEPT !.status = Some("completed"),
                                                     !.shopify_order_id = q.orderId])]
             ELSE S,
             c, q, Resp(200, "", "completed", <<>>, q.orderId))
     : ok \in StoreResults}

(***************************************************************************)
(* The step a request takes next, by handler set, operation and position.  *)
(***************************************************************************)
Outcomes(srv, S, c, q) ==
    CASE srv = "express" /\ q.op = "create" /\ q.pc = "recv" -> ExpressCreate(S, c, q)
      [] srv = "express" /\ q.op = "update" /\ q.pc = "recv" -> ExpressUpdateRead(S, c, q)
      [] srv = "express" /\ q.op = "update" /\ q.pc = "write" -> ExpressUpdateWrite(S, c, q)
      [] srv = "express" /\ q.op = "complete" /\ q.pc = "recv" -> ExpressCompleteRead(S, c, q)
      [] srv = "express" /\ q.op = "complete" /\ q.pc = "write" -> ExpressCompleteWrite(S, c, q)
      [] srv = "remix" /\ q.op = "create" /\ q.pc = "recv" -> handleCreateCheckout(S, c, q)
      [] srv = "remix" /\ q.op = "update" /\ q.pc = "recv" -> handleUpdateCheckoutRead(S, c, q)
      [] srv = "remix" /\ q.op = "update" /\ q.pc = "write" -> handleUpdateCheckoutWrite(S, c, q)
      [] srv = "remix" /\ q.op = "update" /\ q.pc = "status" -> handleUpdateCheckoutStatus(S, c, q)
      [] srv = "remix" /\ q.op = "complete" /\ q.pc = "recv" -> handleCompleteCheckoutRead(S, c, q)
      [] srv = "remix" /\ q.op = "complete" /\ q.pc = "write" -> handleCompleteCheckoutWrite(S, c, q)
      [] OTHER -> {}

(***************************************************************************)
(* The catalog: merchant-auth.js (registration) and the product routes of  *)
(* server/routes/ucp.js (CSV upload, JSON upload, purge), on the tables    *)
(* easy_ucp_merchants and easy_ucp_products.  These routes exist in the    *)
(* Express application only.  Of a product the model keeps merchant_id,    *)
(* name, price, url and active; the optional columns take no part in any   *)
(* test of the handlers.                                                   *)
(***************************************************************************)
\* line 379
REQUIRED_COLUMNS == {"name", "price", "url"}

\* A JavaScript string or number (a CSV cell is always a string).
Str(s) == [str |-> s]
Num(n) == [num |-> n]

\* `!x` on an optional string or number
IsFalsy(opt) == opt = NULL \/ The(opt) = Str("") \/ The(opt) = Num(0)

\* String.prototype.trim, on the strings of the inputs
trim(s) == CASE s = " " -> ""
             [] s = " Lamp " -> "Lamp"
             [] OTHER -> s

\* parseFloat: {n} for a number, {} for NaN
parseFloat(opt) ==
    IF opt = NULL THEN NULL
    ELSE LET v == The(opt)
         IN IF "num" \in DOMAIN v THEN Some(v.num)
            ELSE CASE trim(v.str) = "25" -> Some(25)
                   [] trim(v.str) = "40" -> Some(40)
                   [] trim(v.str) = "0"  -> Some(0)
                   [] trim(v.str) = "-5" -> Some(0 - 5)
                   [] OTHER -> NULL
isNaN(x) == x = NULL

\* A CSV record or a JSON item: name, price and url, each present or absent.
Item(name, price, url) == [name |-> name, price |-> price, url |-> url]

Lamp == Item(Some(Str("Lamp")), Some(Str("25")), Some(Str("u/lamp")))
Desk == Item(Some(Str("Desk")), Some(Str("40")), Some(Str("u/desk")))
PaddedLamp == Item(Some(Str(" Lamp ")), Some(Str("25")), Some(Str("u/lamp")))
FreeLamp == Item(Some(Str("Lamp")), Some(Num(0)), Some(Str("u/lamp")))
NoName == Item(Some(Str("")), Some(Str("25")), Some(Str("u/x")))
BlankName == Item(Some(Str(" ")), Some(Str("25")), Some(Str("u/x")))
NegPrice == Item(Some(Str("Rug")), Some(Str("-5")), Some(Str("u/rug")))
BadPrice == Item(Some(Str("Rug")), Some(Str("abc")), Some(Str("u/rug")))
NoNameNoUrl == Item(Some(Str("")), Some(Str("25")), Some(Str("")))
NoUrlColumn == Item(Some(Str("Lamp")), Some(Str("25")), NULL)
NoPriceKey == Item(Some(Str("Lamp")), NULL, Some(Str("u/lamp")))

\* An upload: a CSV file (its header and its records) or a JSON body (its
\* "products" value), and the ?replace=true flag.
CsvUpload(rows, replace) ==
    [format |-> "csv", file |-> TRUE, isArray |-> TRUE, rows |-> rows, replace |-> replace]
JsonUpload(rows, replace) ==
    [format |-> "json", file |-> FALSE, isArray |-> TRUE, rows |-> rows, replace |-> replace]
NoUpload == [format |-> "none", file |-> FALSE, isArray |-> FALSE, rows |-> <<>>, replace |-> FALSE]

\* the header of a CSV file, read off its first record (line 434)
Columns(rows) == {c \in REQUIRED_COLUMNS : rows[1][c] # NULL}

\* csv-parse with trim: true: every cell is trimmed
parse(rows) ==
    [k \in 1..Len(rows) |->
        [c \in DOMAIN rows[k] |->
            IF rows[k][c] = NULL THEN NULL ELSE Some(Str(trim(The(rows[k][c]).str)))]]

ValidBatches == {<<Lamp>>, <<Desk, Lamp>>}
RefusedBatches == {<<BadPrice>>, <<Lamp, Desk, NoName>>, <<NoNameNoUrl, Lamp, BadPrice>>}
OddBatches == {<<NegPrice>>, <<BlankName>>, <<PaddedLamp>>}

\* The uploads a client may send.
Uploads ==
    {CsvUpload(rows, replace) :
        rows \in ValidBatches \cup {<<NoNameNoUrl, Lamp, BadPrice>>, <<NoUrlColumn, NoUrlColumn>>},
        replace \in BOOLEAN}
      \cup {CsvUpload(rows, FALSE) :
              rows \in RefusedBatches \cup OddBatches \cup {<<>>}}
      \cup {[CsvUpload(<<Lamp>>, FALSE) EXCEPT !.file = FALSE]}
      \cup {JsonUpload(rows, replace) :
              rows \in ValidBatches \cup {<<NoNameNoUrl, Lamp, BadPrice>>, <<NoPriceKey, Lamp>>},
              replace \in BOOLEAN}
      \cup {JsonUpload(rows, FALSE) :
              rows \in RefusedBatches \cup OddBatches \cup {<<>>, <<FreeLamp>>}}
      \cup {[JsonUpload(<<>>, FALSE) EXCEPT !.isArray = FALSE]}

\* A validation error: the row it names and the check that failed.
RowError(row, what) == [row |-> row, what |-> what]

\* POST /api/products/upload, lines 450-458: the checks on one record
CsvRowErrors(row, rowNum) ==
    (IF IsFalsy(row.name) \/ trim(The(row.name).str) = ""
     THEN <<RowError(rowNum, "missing name")>> ELSE <<>>)
    \o (IF IsFalsy(row.price) \/ isNaN(parseFloat(row.price))
        THEN <<RowError(rowNum, "invalid price")>> ELSE <<>>)
    \o (IF IsFalsy(row.url) \/ trim(The(row.url).str) = ""
        THEN <<RowError(rowNum, "missing url")>> ELSE <<>>)

\* Checks on one item that leave the price out.
JsonItemErrorsNameUrl(item, rowNum) ==
    (IF IsFalsy(item.name) THEN <<[row |-> rowNum, what |-> "missing name"]>> ELSE <<>>)
    \o (IF IsFalsy(item.url) THEN <<[row |-> rowNum, what |-> "missing url"]>> ELSE <<>>)

\* POST /api/products/json, lines 558-560: the checks on one item
JsonItemErrors(item, rowNum) ==
    (IF IsFalsy(item.name) THEN <<RowError(rowNum, "missing name")>> ELSE <<>>)
    \o (IF item.price = NULL \/ isNaN(parseFloat(item.price))
        THEN <<RowError(rowNum, "invalid price")>> ELSE <<>>)
    \o (IF IsFalsy(item.url) THEN <<RowError(rowNum, "missing url")>> ELSE <<>>)

\* A validation that stops at the first record with an error.
RECURSIVE UploadErrorsFirstRow(_, _, _)
UploadErrorsFirstRow(format, records, k) ==
    IF k > Len(records) THEN <<>>
    ELSE LET errors == IF format = "csv" THEN CsvRowErrors(records[k], k + 1)
                       ELSE JsonItemErrors(records[k], k)
         IN IF Len(errors) > 0 THEN errors
            ELSE UploadErrorsFirstRow(format, records, k + 1)

\* errors.push over records.map: the errors of all records, in order.  A CSV
\* record is named by index + 2 (header row, 1-based), a JSON item by index + 1.
RECURSIVE UploadErrors(_, _, _)
UploadErrors(format, records, k) ==
    IF k > Len(records) THEN <<>>
    ELSE (IF format = "csv" THEN CsvRowErrors(records[k], k + 1)
          ELSE JsonItemErrors(records[k], k))
         \o UploadErrors(format, records, k + 1)

\* A row that takes its owner from the record when the record names one.
ProductTrustingRow(merchant_id, row) ==
    [merchant_id |-> IF "merchant_id" \in DOMAIN row
                     THEN IF The(row.merchant_id) \in {Str("2"), Num(2)} THEN 2 ELSE 1
                     ELSE merchant_id,
     name |-> IF IsFalsy(row.name) THEN "" ELSE trim(The(row.name).str),
     price |-> IF isNaN(parseFloat(row.price)) THEN 0 ELSE The(parseFloat(row.price)),
     url |-> IF IsFalsy(row.url) THEN "" ELSE trim(The(row.url).str),
     active |-> TRUE]

\* lines 460-472 and 562-574: the row to insert for one record
Product(merchant_id, row) ==
    [merchant_id |-> merchant_id,
     name |-> IF IsFalsy(row.name) THEN "" ELSE trim(The(row.name).str),
     price |-> IF isNaN(parseFloat(row.price)) THEN 0 ELSE The(parseFloat(row.price)),
     url |-> IF IsFalsy(row.url) THEN "" ELSE trim(The(row.url).str),
     active |-> TRUE]


(***************************************************************************)
(* The tables easy_ucp_merchants and easy_ucp_products.                    *)
(***************************************************************************)
\* product_count INTEGER DEFAULT 0, is_active BOOLEAN DEFAULT true
MerchantRow(email, store_name, store_url, api_key, slug) ==
    [email |-> email, store_name |-> store_name, store_url |-> store_url,
     api_key |-> api_key, slug |-> slug, product_count |-> Some(0), is_active |-> TRUE]

\* The rows of merchant m, and his active rows.
ProductsOf(P, m) == SelectSeq(P, LAMBDA p : p.merchant_id = m)
ActiveProductsOf(P, m) == SelectSeq(P, LAMBDA p : p.merchant_id = m /\ p.active)

\* DELETE FROM easy_ucp_products WHERE merchant_id = m
DeleteProducts(P, m) == SelectSeq(P, LAMBDA p : p.merchant_id # m)

\* SELECT count(*) ... WHERE merchant_id = m AND active
CountActive(P, m) == Len(ActiveProductsOf(P, m))

(***************************************************************************)
(* Catalog requests and their responses.                                   *)
(***************************************************************************)
JobResp(code, error, errors, products_uploaded, total_active_products, inserted_so_far) ==
    [code |-> code, error |-> error,
     errors |-> SubSeq(errors, 1, IF Len(errors) < 20 THEN Len(errors) ELSE 20),
     total_errors |-> Len(errors),
     products_uploaded |-> products_uploaded,
     total_active_products |-> total_active_products,
     inserted_so_far |-> inserted_so_far]
NoJobResp == JobResp(0, "", <<>>, NULL, NULL, NULL)
Failure(code, error) == JobResp(code, error, <<>>, NULL, NULL, NULL)

NoRegistration == [email |-> NULL, store_name |-> NULL, store_url |-> NULL]

\* A catalog request: its route, position, X-API-Key header and payload; the
\* handler's req.merchant, products, i, inserted, count and slug; its
\* response.  For the properties it also records the products table as it
\* was when the request arrived (before), whether no other catalog request
\* ran beside it (alone), and whether a store statement whose error the
\* handler does not read has failed (unread).  No handler reads these three.
Job(op, pc, key, upload, body, before, alone) ==
    [op |-> op, pc |-> pc, key |-> key, upload |-> upload, body |-> body,
     merchant |-> 0, products |-> <<>>, i |-> 0, inserted |-> 0, count |-> NULL,
     slug |-> [text |-> "", suffix |-> ""], resp |-> NoJobResp,
     before |-> before, alone |-> alone, unread |-> FALSE]
IdleJob == Job("none", "idle", NULL, NoUpload, NoRegistration, <<>>, TRUE)

\* What one step of a catalog request yields.
JobOutcome(M, P, j) == [merchants |-> M, products |-> P, job |-> j]
JobReturns(M, P, j, resp) == JobOutcome(M, P, [j EXCEPT !.pc = "done", !.resp = resp])

(***************************************************************************)
(* merchant-auth.js: POST /api/merchants/register.                         *)
(***************************************************************************)
\* generateSlug, lines 10-16, on the store names of the inputs
\* A slug: its text and, when line 63 added one, its random suffix.
Slug(text, suffix) == [text |-> text, suffix |-> suffix]

\* generateSlug, lines 10-16, on the store names of the inputs
generateSlug(storeName) ==
    CASE storeName = "Ann Shop" -> Slug("ann-shop", "")
      [] storeName = "ANN shop!" -> Slug("ann-shop", "")
      [] storeName = "Bob's Store" -> Slug("bob-s-store", "")
      [] OTHER -> Slug("shop", "")

\* line 63: slug + '-' + crypto.randomBytes(3).toString('hex')
SuffixedSlug(slug) == Slug(slug.text, "hex")

\* generateApiKey, lines 21-23: a key no earlier merchant holds
generateApiKey(id) == [eucp |-> id]

\* gen_random_uuid(): the id of a new merchant
FreshMerchantIds(M) ==
    LET unused == MerchantIds \ DOMAIN M
    IN IF unused = {} THEN {} ELSE {CHOOSE id \in unused : \A other \in unused : id <= other}

\* lines 31-64: the body test and the select by email
RegisterEmail(M, P, j) ==
    LET b == j.body
    IN IF IsFalsy(b.email) \/ IsFalsy(b.store_name) \/ IsFalsy(b.store_url)
       THEN {JobReturns(M, P, j, Failure(400, "Missing required fields"))}
       ELSE {LET existing == ok /\ \E id \in DOMAIN M : M[id].email = The(b.email)
             IN IF existing
                THEN JobReturns(M, P, j, Failure(409, "Email already registered"))
                ELSE JobOutcome(M, P, [j EXCEPT !.pc = "slug",
                                                !.slug = generateSlug(The(b.store_name).str)])
             : ok \in StoreResults}

\* lines 56-66: the select by slug
RegisterSlug(M, P, j) ==
    {LET slugExists == ok /\ \E id \in DOMAIN M : M[id].slug = j.slug
     IN JobOutcome(M, P, [j EXCEPT !.pc = "insert",
                                   !.slug = IF slugExists THEN SuffixedSlug(j.slug) ELSE j.slug])
     : ok \in StoreResults}

\* lines 68-83: the insert, which the UNIQUE columns may refuse
RegisterInsert(M, P, j) ==
    {LET b == j.body
         unique == \A m \in DOMAIN M : M[m].email # The(b.email) /\ M[m].slug # j.slug
     IN IF ok /\ unique /\ FreshMerchantIds(M) # {}
        THEN LET id == CHOOSE id \in FreshMerchantIds(M) : TRUE
             IN JobOutcome(M @@ (id :> MerchantRow(The(b.email), trim(The(b.store_name).str),
                                                   trim(The(b.store_url).str),
                                                   generateApiKey(id), j.slug)),
                           P, [j EXCEPT !.pc = "notify", !.merchant = id])
        ELSE JobReturns(M, P, j, Failure(500, "Registration failed"))
     : ok \in StoreResults}

\* lines 85-132: the ntfy notification, whose failure is swallowed, and the
\* response
RegisterNotify(M, P, j) == {JobReturns(M, P, j, JobResp(201, "", <<>>, NULL, NULL, NULL))}

(***************************************************************************)
(* server/routes/ucp.js: authenticateMerchant and the product routes.      *)
(***************************************************************************)
\* lines 385-404: the merchant the key names, or none
authenticateMerchant(M, key, ok) ==
    IF key = NULL \/ ~ok THEN {}
    ELSE {id \in DOMAIN M : M[id].api_key = The(key) /\ M[id].is_active}

AuthFailure(key) ==
    IF key = NULL THEN Failure(401, "Missing X-API-Key header")
    ELSE Failure(401, "Invalid API key")

\* lines 412-481 and 542-583: what the handler does before its first store
\* statement: a 400, or the rows to insert
UploadRefusal(u) ==
    IF u.format = "csv"
    THEN IF ~u.file THEN Some(Failure(400, "No CSV file provided"))
         ELSE IF Len(u.rows) = 0 THEN Some(Failure(400, "CSV file is empty"))
         ELSE IF REQUIRED_COLUMNS \ Columns(u.rows) # {}
              THEN Some(Failure(400, "Missing required columns"))
         ELSE LET errors == UploadErrors("csv", parse(u.rows), 1)
              IN IF Len(errors) > 0
                 THEN Some(JobResp(400, "Validation errors in CSV data", errors, NULL, NULL, NULL))
                 ELSE NULL
    ELSE IF ~u.isArray \/ Len(u.rows) = 0
         THEN Some(Failure(400, "Request body must contain \"products\" array"))
         ELSE LET errors == UploadErrors("json", u.rows, 1)
              IN IF Len(errors) > 0
                 THEN Some(JobResp(400, "Validation errors", errors, NULL, NULL, NULL))
                 ELSE NULL

UploadProducts(u, merchant_id) ==
    LET records == IF u.format = "csv" THEN parse(u.rows) ELSE u.rows
    IN [k \in 1..Len(records) |-> Product(merchant_id, records[k])]

\* authenticateMerchant, then lines 410-483 (CSV) or 540-585 (JSON)
UploadValidate(M, P, j) ==
    {LET found == authenticateMerchant(M, j.key, ok)
     IN IF found = {} THEN JobReturns(M, P, j, AuthFailure(j.key))
        ELSE IF UploadRefusal(j.upload) # NULL
             THEN JobReturns(M, P, [j EXCEPT !.merchant = CHOOSE id \in found : TRUE],
                             The(UploadRefusal(j.upload)))
        ELSE LET id == CHOOSE id \in found : TRUE
             IN JobOutcome(M, P, [j EXCEPT !.merchant = id,
                                           !.products = UploadProducts(j.upload, id),
                                           !.pc = IF j.upload.replace THEN "delete" ELSE "insert"])
     : ok \in StoreResults}

\* lines 484-489 and 586-591: the delete of replace mode, whose error is not read
UploadDelete(M, P, j) ==
    {JobOutcome(M, IF ok THEN DeleteProducts(P, j.merchant) ELSE P,
                [j EXCEPT !.pc = "insert", !.unread = @ \/ ~ok])
     : ok \in StoreResults}

\* An insert loop that skips a batch that failed and goes on with the next.
UploadInsertSkipping(M, P, j) ==
    {LET last == IF j.i + batchSize < Len(j.products) THEN j.i + batchSize
                 ELSE Len(j.products)
         batch == SubSeq(j.products, j.i + 1, last)
     IN JobOutcome(M, IF ok THEN P \o batch ELSE P,
                   [j EXCEPT !.inserted = IF ok THEN @ + Len(batch) ELSE @,
                             !.i = @ + batchSize,
                             !.pc = IF j.i + batchSize < Len(j.products)
                                    THEN "insert" ELSE "count"])
     : ok \in StoreResults}

\* lines 494-508 and 596-610: one batch of the insert loop
UploadInsert(M, P, j) ==
    {LET last == IF j.i + batchSize < Len(j.products) THEN j.i + batchSize
                 ELSE Len(j.products)
         batch == SubSeq(j.products, j.i + 1, last)
     IN IF ~ok
        THEN JobReturns(M, P, j, JobResp(500, "Failed to insert products", <<>>,
                                         NULL, NULL, Some(j.inserted)))
        ELSE JobOutcome(M, P \o batch,
                        [j EXCEPT !.inserted = @ + Len(batch),
                                  !.i = @ + batchSize,
                                  !.pc = IF j.i + batchSize < Len(j.products)
                                         THEN "insert" ELSE "count"])
     : ok \in StoreResults}

\* lines 511-515 and 613-617: the count, null when the statement fails
UploadCount(M, P, j) ==
    {JobOutcome(M, P, [j EXCEPT !.pc = "update",
                                !.count = IF ok THEN Some(CountActive(P, j.merchant)) ELSE NULL,
                                !.unread = @ \/ ~ok])
     : ok \in StoreResults}

\* lines 517-528 and 619-630: the update of product_count, whose error is not
\* read, and the response
UploadUpdate(M, P, j) ==
    {JobReturns(IF ok THEN [M EXCEPT ![j.merchant].product_count = j.count] ELSE M,
                P, [j EXCEPT !.unread = @ \/ ~ok],
                JobResp(201, "", <<>>, Some(j.inserted), j.count, NULL))
     : ok \in StoreResults}

\* DELETE /api/products/mine: authenticateMerchant
PurgeAuthenticate(M, P, j) ==
    {LET found == authenticateMerchant(M, j.key, ok)
     IN IF found = {} THEN JobReturns(M, P, j, AuthFailure(j.key))
        ELSE JobOutcome(M, P, [j EXCEPT !.merchant = CHOOSE id \in found : TRUE,
                                        !.pc = "delete"])
     : ok \in StoreResults}

\* lines 681-688: the delete
PurgeDelete(M, P, j) ==
    {IF ok THEN JobOutcome(M, DeleteProducts(P, j.merchant), [j EXCEPT !.pc = "update"])
     ELSE JobReturns(M, P, j, Failure(500, "Failed to delete products"))
     : ok \in StoreResults}

\* lines 690-695: product_count := 0, whose error is not read, and the response
\* A variant of PurgeUpdate that also issues the merchant a new key.
PurgeUpdateRekeying(M, P, j) ==
    {JobReturns(IF ok THEN [M EXCEPT ![j.merchant].product_count = Some(0),
                                     ![j.merchant].api_key = generateApiKey(0)]
                      ELSE M,
                P, [j EXCEPT !.unread = @ \/ ~ok],
                JobResp(200, "", <<>>, NULL, NULL, NULL))
     : ok \in StoreResults}

PurgeUpdate(M, P, j) ==
    {JobReturns(IF ok THEN [M EXCEPT ![j.merchant].product_count = Some(0)] ELSE M,
                P, [j EXCEPT !.unread = @ \/ ~ok],
                JobResp(200, "", <<>>, NULL, NULL, NULL))
     : ok \in StoreResults}

(***************************************************************************)
(* server/routes/ucp.js: the discovery reads and GET /api/products/mine.   *)
(***************************************************************************)
\* What a read answers: the merchant profile, the merchants listed, or the
\* items of a page with its pagination block.
ReadResp(code, error, profile, listed, items, offset, page, limit, total, total_pages) ==
    [code |-> code, error |-> error, profile |-> profile, listed |-> listed,
     items |-> items, offset |-> offset, page |-> page, limit |-> limit, total |-> total,
     total_pages |-> total_pages, next |-> NULL]
ReadFailure(code, error) == ReadResp(code, error, NULL, {}, <<>>, 0, 0, 0, 0, 0)

\* The query string of a read: the slug of the path, page, limit and q.
Query(slug, page, limit, q) == [slug |-> slug, page |-> page, limit |-> limit, q |-> q]

\* parseInt, on the query strings of the inputs: {n} for a number, {} for NaN
parseInt(opt) ==
    IF opt = NULL THEN NULL
    ELSE CASE The(opt) = "0" -> Some(0)
           [] The(opt) = "1" -> Some(1)
           [] The(opt) = "2" -> Some(2)
           [] The(opt) = "3" -> Some(3)
           [] The(opt) = "4" -> Some(4)
           [] The(opt) = "5" -> Some(5)
           [] The(opt) = "100" -> Some(100)
           [] The(opt) = "500" -> Some(500)
           [] The(opt) = "-1" -> Some(0 - 1)
           [] The(opt) = "-5" -> Some(0 - 5)
           [] The(opt) = "600" -> Some(600)
           [] OTHER -> NULL

\* `${n}` in a template literal, on the numbers of the inputs
NumberToString(n) == CASE n = 0 -> "0"
                 [] n = 1 -> "1"
                 [] n = 2 -> "2"
                 [] n = 3 -> "3"
                 [] n = 4 -> "4"
                 [] n = 5 -> "5"
                 [] n = 100 -> "100"
                 [] n = 500 -> "500"
                 [] n = 0 - 5 -> "-5"
                 [] OTHER -> "NaN"

\* A variant of OrElse that also replaces a negative number.
OrElsePositive(n, d) == IF n = NULL \/ The(n) < 1 THEN d ELSE The(n)

\* `n || d` on the result of parseInt: NaN and 0 are falsy
OrElse(n, d) == IF n = NULL \/ n = Some(0) THEN d ELSE The(n)

MathMin(a, b) == IF a < b THEN a ELSE b

\* Math.ceil(a / b) for b # 0, as JSON shows it (-0 is 0)
MathCeil(a, b) == IF b > 0 THEN (a + b - 1) \div b ELSE 0 - (a \div (0 - b))

\* lines 127-129 and 644-646: page, limit and offset of a request
PageOf(q) == OrElse(parseInt(q.page), 1)
FeedLimit(q) == MathMin(OrElse(parseInt(q.limit), 100), 500)
MineLimit(q) == MathMin(OrElse(parseInt(q.limit), 50), 200)
Offset(page, limit) == (page - 1) * limit

\* name ILIKE %q%, on the names and the searches of the inputs
ilike(name, q) == CASE q = "lamp" -> name = "Lamp"
                    [] q = "desk" -> name = "Desk"
                    [] OTHER -> FALSE

\* ORDER BY name, on the names of the inputs
NameRank(name) == CASE name = "" -> 0
                    [] name = "Desk" -> 1
                    [] name = "Lamp" -> 2
                    [] OTHER -> 3
OrderByName(rows) ==
    SelectSeq(rows, LAMBDA p : NameRank(p.name) = 0)
      \o SelectSeq(rows, LAMBDA p : NameRank(p.name) = 1)
      \o SelectSeq(rows, LAMBDA p : NameRank(p.name) = 2)
      \o SelectSeq(rows, LAMBDA p : NameRank(p.name) = 3)

\* ORDER BY created_at DESC: the table keeps the rows in insertion order
OrderByCreatedDesc(rows) == [n \in 1..Len(rows) |-> rows[Len(rows) + 1 - n]]

\* .range(from, to): rows from..to of the result, counted from 0.  The
\* store's answer for a negative bound is not in the source; the model lets
\* the statement fail or return the rows of the part of the range that
\* exists.
Range(rows, from, to) ==
    SubSeq(rows, (IF from < 0 THEN 0 ELSE from) + 1, MathMin(to + 1, Len(rows)))

\* A variant of FindMerchant that does not look at is_active.
FindMerchantInactiveToo(M, slug, ok) ==
    IF ~ok THEN {} ELSE {id \in DOMAIN M : M[id].slug = slug}

\* .eq('slug', slug).eq('is_active', true).single(): the merchant, or none
FindMerchant(M, slug, ok) ==
    IF ~ok THEN {} ELSE {id \in DOMAIN M : M[id].slug = slug /\ M[id].is_active}

\* What the profile and the listing show of a merchant.
Shown(row) ==
    [store_name |-> row.store_name, store_url |-> row.store_url, slug |-> row.slug,
     product_count |-> row.product_count]

\* GET /.well-known/ucp/:slug, lines 36-72
ProfileSelect(M, P, j) ==
    {LET found == FindMerchant(M, j.body.slug, ok)
     IN  IF found = {} THEN JobReturns(M, P, j, ReadFailure(404, "Merchant not found"))
         ELSE JobReturns(M, P, j,
                         ReadResp(200, "", Some(Shown(M[The(found)])), {}, <<>>, 0, 0, 0, 0, 0))
     : ok \in StoreResults}

\* A variant of ListedMerchants that does not look at is_active.
ListedMerchantsInactiveToo(M) ==
    {id \in DOMAIN M : M[id].product_count # NULL /\ The(M[id].product_count) > 0}

\* .eq('is_active', true).gt('product_count', 0): the merchants listed
ListedMerchants(M) ==
    {id \in DOMAIN M :
        /\ M[id].is_active
        /\ M[id].product_count # NULL
        /\ The(M[id].product_count) > 0}

\* GET /api/ucp/v1/merchants, lines 78-102.  The order of the rows is not
\* modelled: the listing is the set of its merchants.
MerchantsSelect(M, P, j) ==
    {IF ~ok THEN JobReturns(M, P, j, ReadFailure(500, "Failed to fetch merchants"))
     ELSE JobReturns(M, P, j, ReadResp(200, "", NULL, ListedMerchants(M), <<>>, 0, 0, 0, 0, 0))
     : ok \in StoreResults}

\* GET /api/ucp/v1/:slug/products, lines 109-129: the merchant of the slug
FeedMerchant(M, P, j) ==
    {LET found == FindMerchant(M, j.body.slug, ok)
     IN  IF found = {} THEN JobReturns(M, P, j, ReadFailure(404, "Merchant not found"))
         ELSE JobOutcome(M, P, [j EXCEPT !.pc = "select", !.merchant = The(found)])
     : ok \in StoreResults}

\* A variant of FeedRows that selects the rows of every merchant.
FeedRowsOfAll(P, m, q) ==
    OrderByName(SelectSeq(P, LAMBDA p : /\ p.active
                                        /\ (q = NULL \/ q = Some("") \/ ilike(p.name, The(q)))))

\* lines 135-150: the active products of the merchant that match the search
FeedRows(P, m, q) ==
    OrderByName(SelectSeq(P, LAMBDA p : /\ p.merchant_id = m
                                        /\ p.active
                                        /\ (q = NULL \/ q = Some("") \/ ilike(p.name, The(q)))))

\* A variant of PageResp that answers a page past the last one with an error.
PageRespRefusingPast(rows, page, limit) ==
    IF Offset(page, limit) >= Len(rows) /\ page > 1
    THEN ReadFailure(500, "Failed to fetch products")
    ELSE ReadResp(200, "", NULL, {},
                  Range(rows, Offset(page, limit), Offset(page, limit) + limit - 1),
                  Offset(page, limit), page, limit, Len(rows), MathCeil(Len(rows), limit))

\* The page of a result: the rows of the range and the count of all rows.
PageResp(rows, page, limit) ==
    ReadResp(200, "", NULL, {},
             Range(rows, Offset(page, limit), Offset(page, limit) + limit - 1),
             Offset(page, limit), page, limit, Len(rows), MathCeil(Len(rows), limit))

\* line 214: the link to the next page, `.../${slug}/products?page=${page +
\* 1}&limit=${limit}`, as the query it makes
NextLink(slug, page, limit) ==
    Query(slug, Some(NumberToString(page + 1)), Some(NumberToString(limit)), NULL)

\* lines 148-221: the select of the page, the analytics insert the handler
\* starts and does not await, and the response
FeedSelect(M, P, j) ==
    {IF ~ok THEN JobReturns(M, P, j @@ [fault |-> TRUE],
                            ReadFailure(500, "Failed to fetch products"))
     ELSE JobReturns(M, P, j @@ [fault |-> FALSE, insert |-> "pending"],
                     LET page == PageResp(FeedRows(P, j.merchant, j.body.q),
                                          PageOf(j.body), FeedLimit(j.body))
                     IN  [page EXCEPT !.next = IF page.page * page.limit < page.total
                                               THEN Some(NextLink(j.body.slug, page.page, page.limit))
                                               ELSE NULL])
     : ok \in StoreResults}

\* A variant of AnalyticsSettled where a failed insert reaches the response.
AnalyticsSettledFailing(j, ok) ==
    IF ok THEN [j EXCEPT !.insert = "stored"]
    ELSE [j EXCEPT !.insert = "failed",
                   !.resp = ReadFailure(500, "Failed to fetch products")]

\* lines 171-172, .then(() => {}).catch(() => {}): the analytics insert
\* ends, stored or failed, and nothing of the request changes
AnalyticsSettled(j, ok) == [j EXCEPT !.insert = IF ok THEN "stored" ELSE "failed"]

\* GET /api/products/mine, lines 642-646: authenticateMerchant
MineAuthenticate(M, P, j) ==
    {LET found == authenticateMerchant(M, j.key, ok)
     IN  IF found = {} THEN JobReturns(M, P, j, AuthFailure(j.key))
         ELSE JobOutcome(M, P, [j EXCEPT !.pc = "select", !.merchant = The(found)])
     : ok \in StoreResults}

\* lines 648-668: the select of the page and the response
MineSelect(M, P, j) ==
    {IF ~ok THEN JobReturns(M, P, j @@ [fault |-> TRUE],
                            ReadFailure(500, "Failed to fetch products"))
     ELSE JobReturns(M, P, j @@ [fault |-> FALSE],
                     PageResp(OrderByCreatedDesc(ActiveProductsOf(P, j.merchant)),
                              PageOf(j.body), MineLimit(j.body)))
     : ok \in StoreResults}

\* The step a catalog request takes next, by route and position.
JobOutcomes(M, P, j) ==
    CASE j.op = "register" /\ j.pc = "recv" -> RegisterEmail(M, P, j)
      [] j.op = "register" /\ j.pc = "slug" -> RegisterSlug(M, P, j)
      [] j.op = "register" /\ j.pc = "insert" -> RegisterInsert(M, P, j)
      [] j.op = "register" /\ j.pc = "notify" -> RegisterNotify(M, P, j)
      [] j.op \in {"upload", "json"} /\ j.pc = "recv" -> UploadValidate(M, P, j)
      [] j.op \in {"upload", "json"} /\ j.pc = "delete" -> UploadDelete(M, P, j)
      [] j.op \in {"upload", "json"} /\ j.pc = "insert" -> UploadInsert(M, P, j)
      [] j.op \in {"upload", "json"} /\ j.pc = "count" -> UploadCount(M, P, j)
      [] j.op \in {"upload", "json"} /\ j.pc = "update" -> UploadUpdate(M, P, j)
      [] j.op = "purge" /\ j.pc = "recv" -> PurgeAuthenticate(M, P, j)
      [] j.op = "purge" /\ j.pc = "delete" -> PurgeDelete(M, P, j)
      [] j.op = "purge" /\ j.pc = "update" -> PurgeUpdate(M, P, j)
      [] j.op = "profile" /\ j.pc = "recv" -> ProfileSelect(M, P, j)
      [] j.op = "merchants" /\ j.pc = "recv" -> MerchantsSelect(M, P, j)
      [] j.op = "feed" /\ j.pc = "recv" -> FeedMerchant(M, P, j)
      [] j.op = "feed" /\ j.pc = "select" -> FeedSelect(M, P, j)
      [] j.op = "mine" /\ j.pc = "recv" -> MineAuthenticate(M, P, j)
      [] j.op = "mine" /\ j.pc = "select" -> MineSelect(M, P, j)
      [] OTHER -> {}

(***************************************************************************)
(* The state machine.                                                      *)
(***************************************************************************)
Init ==
    /\ server \in Servers
    /\ sessions = <<>>
    /\ reqs = [r \in Slots |-> Idle]
    /\ clock = 0
    /\ overlap = [r \in Slots |-> "none"]
    /\ stale = [r \in Slots |-> FALSE]
    /\ merchants = <<>>
    /\ products = <<>>
    /\ jobs = [k \in JobSlots |-> IdleJob]
    /\ orphans = {}

\* The requests a client may send: operation, path parameter, body.  Id 0
\* names no session, ever.
Calls ==
    {<<"create", 0, body>> : body \in CreateBodies}
      \cup {<<"update", id, body>> : id \in SessionIds, body \in UpdateBodies}
      \cup {<<"update", 0, Body(NULL, Some(Ann), NULL, NULL, NULL)>>}
      \cup {<<"complete", id, NoBody>> : id \in SessionIds \cup {0}}

InFlight(op) == {r \in Slots : reqs[r].op = op /\ reqs[r].pc # "idle"}

\* The model serves a call while session ids and order ids are left for it.
Served(call) ==
    /\ call[1] = "create" =>
          Cardinality(DOMAIN sessions) + Cardinality(InFlight("create")) < Cardinality(SessionIds)
    /\ call[1] = "complete" => clock + Cardinality(InFlight("complete")) < MaxOrders

\* A handler that has returned sends its response before anything else runs.
Responding == \E r \in Slots : reqs[r].pc = "done"

\* What the requests ran beside, once `call` arrives in slot r: "update" for
\* the two of a pair of update calls that overlap on one session which is not
\* completed, "other" once any further call arrives on that session, "none"
\* for a request that ran alone.  No handler reads it.
Beside(r, call) ==
    LET others == {o \in Slots \ {r} : /\ reqs[o].pc # "idle"
                                        /\ reqs[o].op # "create"
                                        /\ reqs[o].sid = call[2]}
        pair == /\ call[1] = "update"
                /\ sessions[call[2]].status # "completed"
                /\ \A o \in others : reqs[o].op = "update" /\ overlap[o] = "none"
    IN IF call[2] \notin DOMAIN sessions \/ others = {}
       THEN [overlap EXCEPT ![r] = "none"]
       ELSE [o \in Slots |->
                IF o = r \/ o \in others
                THEN IF pair THEN "update" ELSE "other"
                ELSE overlap[o]]

\* A request, one of `calls`, arrives and takes the lowest idle slot.
ReceiveOf(r, calls) ==
    /\ ~Responding
    /\ reqs[r].pc = "idle"
    /\ \A other \in Slots : reqs[other].pc = "idle" => r <= other
    /\ \E call \in calls :
          /\ Served(call)
          /\ reqs' = [reqs EXCEPT ![r] =
                         Request(call[1], "recv", call[2], call[3],
                                 /\ call[2] \in DOMAIN sessions
                                 /\ sessions[call[2]].status = "completed")]
          /\ overlap' = Beside(r, call)
          /\ stale' = [stale EXCEPT ![r] = call[2] \in orphans]
    /\ UNCHANGED <<server, sessions, clock, catalog>>

Receive(r) == ReceiveOf(r, Calls)

\* The request of slot r runs from one await to the next, or to its return.
Step(r) ==
    /\ ~Responding
    /\ \E o \in Outcomes(server, sessions, clock, reqs[r]) :
          /\ sessions' = o.sessions
          /\ clock' = o.clock
          /\ reqs' = [reqs EXCEPT ![r] = o.req]
    /\ UNCHANGED <<server, overlap, stale, catalog>>

At(r, op, pc) == reqs[r].op = op /\ reqs[r].pc = pc

CreateCheckout(r) == At(r, "create", "recv") /\ Step(r)
UpdateCheckoutRead(r) == At(r, "update", "recv") /\ Step(r)
UpdateCheckoutWrite(r) == At(r, "update", "write") /\ Step(r)
UpdateCheckoutStatus(r) == At(r, "update", "status") /\ Step(r)
CompleteCheckoutRead(r) == At(r, "complete", "recv") /\ Step(r)
CompleteCheckoutWrite(r) == At(r, "complete", "write") /\ Step(r)

\* The response leaves; the slot is idle again.
Respond(r) ==
    /\ reqs[r].pc = "done"
    /\ reqs' = [reqs EXCEPT ![r] = Idle]
    /\ overlap' = [overlap EXCEPT ![r] = "none"]
    /\ stale' = [stale EXCEPT ![r] = FALSE]
    /\ UNCHANGED <<server, sessions, clock, catalog>>

Next ==
    \E r \in Slots :
        \/ Receive(r)
        \/ CreateCheckout(r)
        \/ UpdateCheckoutRead(r)
        \/ UpdateCheckoutWrite(r)
        \/ UpdateCheckoutStatus(r)
        \/ CompleteCheckoutRead(r)
        \/ CompleteCheckoutWrite(r)
        \/ Respond(r)

Spec == Init /\ [][Next]_vars

(***************************************************************************)
(* Reading the table for the properties below.                             *)
(***************************************************************************)
\* The value a stored column stands for: the Remix rows hold JSON text.
StoredValue(v) == IF server = "remix" THEN JSONparse(v) ELSE v
StoredOption(opt) == IF opt = NULL THEN NULL ELSE Some(StoredValue(The(opt)))

HasBuyerEmail(row) ==
    row.buyer_info # NULL /\ StoredValue(The(row.buyer_info)).email # ""
FieldsReady(row) ==
    HasBuyerEmail(row) /\ row.shipping_address # NULL /\ row.payment_method # NULL
ComputedStatus(row) == IF FieldsReady(row) THEN "ready_for_complete" ELSE "incomplete"

\* Slot r's request took the step from this state to the next.
Stepped(r) == reqs[r].pc \notin {"idle", "done"} /\ reqs'[r] # reqs[r]
Rejected(q) == q.pc = "done" /\ q.resp.code >= 400
OnSession(q) == q.sid \in DOMAIN sessions
Quiet(id) == \A r \in Slots : reqs[r].pc \in {"idle", "done"} \/ reqs[r].sid # id

\* C1: once a session's stored status is completed, no step of an update
\* or complete call made on it afterwards takes it out of completed.
CompletedIsSticky ==
    [][\A r \in Slots :
          (Stepped(r) /\ reqs[r].onCompleted
             /\ sessions[reqs[r].sid].status = "completed")
          => sessions'[reqs[r].sid].status = "completed"]_vars

\* C2: a step of an update call made on a completed session changes no
\* row, and the call ends with an error.
UpdateOfCompletedRejected ==
    [][\A r \in Slots :
          (Stepped(r) /\ reqs[r].op = "update" /\ reqs[r].onCompleted)
          => /\ sessions' = sessions
             /\ reqs'[r].pc = "done" => reqs'[r].resp.code >= 400]_vars

\* C3: with no request on it in flight, a session that is not completed is
\* ready_for_complete exactly when it holds a buyer email, a shipping
\* address and a payment method, and incomplete otherwise.
StatusFollowsFields ==
    \A id \in DOMAIN sessions :
        (sessions[id].status # "completed" /\ Quiet(id))
        => sessions[id].status = ComputedStatus(sessions[id])

\* C4: a complete call on a session that misses the buyer email, the
\* shipping address or the payment method is rejected and changes no row.
CompleteNeedsAllFields ==
    [][\A r \in Slots :
          (Stepped(r) /\ reqs[r].op = "complete" /\ reqs[r].pc = "recv"
             /\ OnSession(reqs[r]) /\ ~FieldsReady(sessions[reqs[r].sid]))
          => Rejected(reqs'[r]) /\ sessions' = sessions]_vars

\* C5: an order id, once assigned, never changes, and a complete call on a
\* completed session is rejected.
OrderIdAssignedOnce ==
    [][/\ \A id \in DOMAIN sessions :
             sessions[id].shopify_order_id # NULL
             => sessions'[id].shopify_order_id = sessions[id].shopify_order_id
       /\ \A r \in Slots :
             (Stepped(r) /\ reqs[r].op = "complete" /\ reqs[r].onCompleted)
             => Rejected(reqs'[r]) /\ sessions' = sessions]_vars

\* C6: a session's order id is set if and only if its status is completed.
OrderIdIffCompleted ==
    \A id \in DOMAIN sessions :
        sessions[id].shopify_order_id # NULL <=> sessions[id].status = "completed"

\* C7: a complete call on a session with a missing field fails, and its
\* not-ready response lists one message per missing field and no other:
\* $.buyer.email recoverable, $.shipping_address and $.payment_method
\* requires_buyer_input.
MissingFields(row) ==
    (IF HasBuyerEmail(row) THEN {} ELSE {<<"$.buyer.email", "recoverable">>})
      \cup (IF row.shipping_address # NULL THEN {}
            ELSE {<<"$.shipping_address", "requires_buyer_input">>})
      \cup (IF row.payment_method # NULL THEN {}
            ELSE {<<"$.payment_method", "requires_buyer_input">>})
Named(messages) ==
    {<<messages[k].path, messages[k].severity>> : k \in 1..Len(messages)}
CompleteNamesMissingFields ==
    [][\A r \in Slots :
          (Stepped(r) /\ reqs[r].op = "complete" /\ reqs[r].pc = "recv"
             /\ OnSession(reqs[r]) /\ sessions[reqs[r].sid].status # "completed"
             /\ ~FieldsReady(sessions[reqs[r].sid]))
          => /\ Rejected(reqs'[r])
             /\ reqs'[r].resp.code = 400 =>
                   /\ Named(reqs'[r].resp.messages) = MissingFields(sessions[reqs[r].sid])
                   /\ Len(reqs'[r].resp.messages)
                        = Cardinality(MissingFields(sessions[reqs[r].sid]))]_vars

\* C8: whatever "status" the body of a create or update call carries, every
\* step of the call leaves the same table and gives the same response as it
\* does for any other "status", or none.
WithStatus(q, st) == [q EXCEPT !.body.status = st]
StatusNeverFromClient ==
    [][\A r \in Slots :
          (Stepped(r) /\ reqs[r].op \in {"create", "update"})
          => \A st \in StatusInputs :
                \E o \in Outcomes(server, sessions, clock, WithStatus(reqs[r], st)) :
                    /\ o.sessions = sessions'
                    /\ WithStatus(o.req, reqs[r].body.status) = reqs'[r]]_vars

\* C8 witness: an update whose body says status completed has returned, and
\* neither its response nor the row says completed.
StatusNeverFromClientWitness ==
    \E r \in Slots :
        /\ reqs[r].op = "update" /\ reqs[r].pc = "done"
        /\ reqs[r].body.status = Some("completed")
        /\ reqs[r].resp.code = 200 /\ reqs[r].resp.status = "ready_for_complete"
        /\ sessions[reqs[r].sid].status = "ready_for_complete"

\* C9: a create whose line_items is missing, no array or empty is rejected
\* and stores nothing; an accepted create stores one new session: status
\* incomplete, the given line items, no buyer_info, no shipping_address, no
\* payment_method, no order id.
CreateContract ==
    [][\A r \in Slots :
          (Stepped(r) /\ reqs[r].op = "create")
          => LET li == reqs[r].body.line_items
                 q == reqs'[r]
             IN /\ q.pc = "done"
                /\ (li = NULL \/ ~The(li).isArray \/ Len(The(li).elems) = 0)
                      => q.resp.code = 400
                /\ q.resp.code # 201 => sessions' = sessions
                /\ q.resp.code = 201 =>
                      /\ q.sid \in SessionIds \ DOMAIN sessions
                      /\ DOMAIN sessions' = DOMAIN sessions \cup {q.sid}
                      /\ \A id \in DOMAIN sessions : sessions'[id] = sessions[id]
                      /\ sessions'[q.sid].status = "incomplete"
                      /\ q.resp.status = "incomplete"
                      /\ StoredValue(sessions'[q.sid].line_items) = The(li)
                      /\ sessions'[q.sid].buyer_info = NULL
                      /\ sessions'[q.sid].shipping_address = NULL
                      /\ sessions'[q.sid].payment_method = NULL
                      /\ sessions'[q.sid].shopify_order_id = NULL]_vars

\* C9 witness: a create that carried buyer, address, payment and a status
\* was accepted, and its session holds the line items alone.
CreateContractWitness ==
    \E r \in Slots :
        /\ reqs[r].op = "create" /\ reqs[r].pc = "done" /\ reqs[r].resp.code = 201
        /\ reqs[r].body = FullBody(Some("ready_for_complete"))
        /\ reqs[r].sid \in DOMAIN sessions
        /\ sessions[reqs[r].sid].status = "incomplete"
        /\ sessions[reqs[r].sid].buyer_info = NULL

\* C10: an update call on a session that is not completed sets every field
\* its body supplies, keeps every other field, and ends with the status
\* computed from the stored fields.
UpdateSetsSuppliedFields ==
    [][\A r \in Slots :
          (Stepped(r) /\ reqs[r].op = "update" /\ OnSession(reqs[r])
             /\ sessions[reqs[r].sid].status # "completed")
          => LET b == reqs[r].body
                 old == sessions[reqs[r].sid]
                 new == sessions'[reqs[r].sid]
                 Set(given, was) == IF given # NULL THEN given ELSE StoredOption(was)
             IN /\ (reqs[r].pc = "write"
                      /\ (reqs'[r].pc = "status" \/ reqs'[r].resp.code = 200))
                   => /\ StoredValue(new.line_items)
                           = IF b.line_items # NULL THEN The(b.line_items)
                             ELSE StoredValue(old.line_items)
                      /\ StoredOption(new.buyer_info) = Set(b.buyer_info, old.buyer_info)
                      /\ StoredOption(new.shipping_address)
                           = Set(b.shipping_address, old.shipping_address)
                      /\ StoredOption(new.payment_method)
                           = Set(b.payment_method, old.payment_method)
                      /\ new.shopify_order_id = old.shopify_order_id
                /\ (reqs'[r].pc = "done" /\ reqs'[r].resp.code = 200)
                   => new.status = ComputedStatus(new)]_vars

\* C11: of two update calls that overlap on a session that is not completed,
\* each write sets the fields its body supplies on the row as it is then and
\* keeps the others, and when the second of the two has returned the stored
\* status is the one computed from the stored fields.
LastWriterWins ==
    [][\A r \in Slots :
          (Stepped(r) /\ reqs[r].op = "update" /\ overlap[r] = "update")
          => LET b == reqs[r].body
                 old == sessions[reqs[r].sid]
                 new == sessions'[reqs[r].sid]
                 Set(given, was) == IF given # NULL THEN given ELSE StoredOption(was)
                 last == \A o \in Slots \ {r} :
                            reqs[o].pc = "idle" \/ reqs[o].sid # reqs[r].sid
             IN /\ (reqs[r].pc = "write"
                      /\ (reqs'[r].pc = "status" \/ reqs'[r].resp.code = 200))
                   => /\ StoredValue(new.line_items)
                           = IF b.line_items # NULL THEN The(b.line_items)
                             ELSE StoredValue(old.line_items)
                      /\ StoredOption(new.buyer_info) = Set(b.buyer_info, old.buyer_info)
                      /\ StoredOption(new.shipping_address)
                           = Set(b.shipping_address, old.shipping_address)
                      /\ StoredOption(new.payment_method)
                           = Set(b.payment_method, old.payment_method)
                /\ (reqs'[r].pc = "done" /\ last)
                   => new.status = ComputedStatus(new)]_vars

\* C12: an update or complete call on a session id that names no session
\* returns 404 and leaves the table as it is.
UnknownSessionNotFound ==
    [][\A r \in Slots :
          (Stepped(r) /\ reqs[r].op \in {"update", "complete"}
             /\ reqs[r].sid \notin DOMAIN sessions)
          => /\ sessions' = sessions
             /\ reqs'[r].pc = "done"
             /\ reqs'[r].resp.code = 404]_vars

(***************************************************************************)
(* The catalog's state machine.                                            *)
(***************************************************************************)
WidgetRow == Item(Some(Str("Widget")), Some(Str("25")), Some(Str("u/widget")))

AnnShop == [email |-> Some(Str("ann@example.com")), store_name |-> Some(Str("Ann Shop")),
            store_url |-> Some(Str("https://ann.example"))]
NoStoreUrl == [AnnShop EXCEPT !.store_url = NULL]

\* The X-API-Key headers a client may send: none, the key of merchant 1, a
\* key of no merchant.
Keys == {NULL, Some(generateApiKey(1)), Some(generateApiKey(0))}

\* The catalog requests a client may send: route, X-API-Key, upload, body.
\* Without the merchant's key every upload meets the same end, so one upload
\* stands for them.
UploadOp(u) == IF u.format = "csv" THEN "upload" ELSE "json"
JobCallsOf(uploads, keys, bodies) ==
    {<<"register", NULL, NoUpload, b>> : b \in bodies}
      \cup {<<UploadOp(u), Some(generateApiKey(1)), u, NoRegistration>> : u \in uploads}
      \cup {<<"upload", key, CsvUpload(<<Lamp>>, FALSE), NoRegistration>> :
              key \in keys \ {Some(generateApiKey(1))}}
      \cup {<<"purge", key, NoUpload, NoRegistration>> : key \in keys}

\* The uploads of the runs where catalog requests overlap: the valid batches,
\* in both formats and both modes.
ValidUploads ==
    {CsvUpload(<<Lamp>>, FALSE), CsvUpload(<<Desk, Lamp>>, TRUE),
     JsonUpload(<<Lamp>>, TRUE), JsonUpload(<<Desk, Lamp>>, FALSE)}

Running == {k \in JobSlots : jobs[k].pc # "idle"}

\* The rows an upload is to insert: none when the handler refuses it.
Rows(u) == IF u.format = "none" \/ UploadRefusal(u) # NULL THEN 0 ELSE Len(u.rows)

RECURSIVE RowsOf(_)
RowsOf(slots) ==
    IF slots = {} THEN 0
    ELSE LET k == CHOOSE k \in slots : TRUE
         IN Rows(jobs[k].upload) + RowsOf(slots \ {k})

\* The model serves an upload while the table has room for its rows.
JobServed(call) == Len(products) + RowsOf(Running) + Rows(call[3]) <= MaxProducts

\* A handler that has returned sends its response before another catalog
\* request moves.
JobResponding == \E k \in JobSlots : jobs[k].pc = "done"

\* A catalog request, one of `calls`, arrives and takes the lowest idle slot.
JobReceiveOf(k, calls) ==
    /\ ~JobResponding
    /\ jobs[k].pc = "idle"
    /\ \A other \in JobSlots : jobs[other].pc = "idle" => k <= other
    /\ \E call \in calls :
          /\ JobServed(call)
          /\ jobs' = [o \in JobSlots |->
                        IF o = k
                        THEN Job(call[1], "recv", call[2], call[3], call[4],
                                 products, Running = {})
                        ELSE IF o \in Running THEN [jobs[o] EXCEPT !.alone = FALSE]
                        ELSE jobs[o]]
    /\ UNCHANGED <<merchants, products, orphans, checkout>>

JobReceive(k) ==
    JobReceiveOf(k, JobCallsOf(ValidUploads, {Some(generateApiKey(1))}, {AnnShop}))
IngestReceive(k) == JobReceiveOf(k, JobCallsOf(Uploads, Keys, {AnnShop, NoStoreUrl}))

\* The titles of a session's line items, and the sessions that name a
\* product among the rows `gone`.
Titles(row) ==
    LET items == StoredValue(row.line_items).elems
    IN {items[n].item.title : n \in 1..Len(items)}
Naming(gone) ==
    {sid \in DOMAIN sessions :
        \E n \in 1..Len(gone) : gone[n].name \in Titles(sessions[sid])}

\* The catalog request of slot k runs from one await to the next, or to its
\* return.
JobStep(k) ==
    /\ ~JobResponding
    /\ \E o \in JobOutcomes(merchants, products, jobs[k]) :
          /\ merchants' = o.merchants
          /\ products' = o.products
          /\ jobs' = [jobs EXCEPT ![k] = o.job]
          /\ orphans' = IF Len(o.products) < Len(products)
                        THEN orphans \cup Naming(ProductsOf(products, jobs[k].merchant))
                        ELSE orphans
    /\ UNCHANGED checkout

JobAt(k, ops, pc) == jobs[k].op \in ops /\ jobs[k].pc = pc

Register(k) == JobAt(k, {"register"}, "recv") /\ JobStep(k)
RegisterSlugCheck(k) == JobAt(k, {"register"}, "slug") /\ JobStep(k)
RegisterMerchant(k) == JobAt(k, {"register"}, "insert") /\ JobStep(k)
RegisterNotification(k) == JobAt(k, {"register"}, "notify") /\ JobStep(k)
ProductsUpload(k) == JobAt(k, {"upload"}, "recv") /\ JobStep(k)
ProductsJson(k) == JobAt(k, {"json"}, "recv") /\ JobStep(k)
ReplaceDelete(k) == JobAt(k, {"upload", "json"}, "delete") /\ JobStep(k)
InsertBatch(k) == JobAt(k, {"upload", "json"}, "insert") /\ JobStep(k)
CountProducts(k) == JobAt(k, {"upload", "json"}, "count") /\ JobStep(k)
SaveProductCount(k) == JobAt(k, {"upload", "json"}, "update") /\ JobStep(k)
ProductsMineDelete(k) == JobAt(k, {"purge"}, "recv") /\ JobStep(k)
DeleteMine(k) == JobAt(k, {"purge"}, "delete") /\ JobStep(k)
ZeroProductCount(k) == JobAt(k, {"purge"}, "update") /\ JobStep(k)

\* The response leaves; the slot is idle again.
JobRespond(k) ==
    /\ jobs[k].pc = "done"
    /\ jobs' = [jobs EXCEPT ![k] = IdleJob]
    /\ UNCHANGED <<merchants, products, orphans, checkout>>

CatalogNext ==
    \E k \in JobSlots :
        \/ JobReceive(k)
        \/ Register(k)
        \/ RegisterSlugCheck(k)
        \/ RegisterMerchant(k)
        \/ RegisterNotification(k)
        \/ ProductsUpload(k)
        \/ ProductsJson(k)
        \/ ReplaceDelete(k)
        \/ InsertBatch(k)
        \/ CountProducts(k)
        \/ SaveProductCount(k)
        \/ ProductsMineDelete(k)
        \/ DeleteMine(k)
        \/ ZeroProductCount(k)
        \/ JobRespond(k)

\* The catalog routes are served by the Express application.
CatalogInit == Init /\ server = "express"

CatalogSpec == CatalogInit /\ [][CatalogNext]_vars

\* One catalog request at a time, with every upload of the inputs.
IngestNext ==
    \E k \in {1} :
        \/ IngestReceive(k)
        \/ Register(k)
        \/ RegisterSlugCheck(k)
        \/ RegisterMerchant(k)
        \/ RegisterNotification(k)
        \/ ProductsUpload(k)
        \/ ProductsJson(k)
        \/ ReplaceDelete(k)
        \/ InsertBatch(k)
        \/ CountProducts(k)
        \/ SaveProductCount(k)
        \/ ProductsMineDelete(k)
        \/ DeleteMine(k)
        \/ ZeroProductCount(k)
        \/ JobRespond(k)

IngestSpec == CatalogInit /\ [][IngestNext]_vars

(***************************************************************************)
(* The shop: one checkout request and one catalog request at a time,       *)
(* interleaved, on a catalog that holds the product the line items name.   *)
(***************************************************************************)
ShopCalls ==
    {<<"create", 0, Body(Some(ArrayOf(<<Widget>>)), NULL, NULL, NULL, NULL)>>,
     <<"update", 1, Body(NULL, Some(Ann), Some(Home), Some(Token), NULL)>>,
     <<"complete", 1, NoBody>>}

ShopUploads == {CsvUpload(<<WidgetRow>>, FALSE), JsonUpload(<<WidgetRow>>, TRUE)}

ShopReceive(r) == ReceiveOf(r, ShopCalls)
ShopJobReceive(k) ==
    JobReceiveOf(k, JobCallsOf(ShopUploads, {Some(generateApiKey(1))}, {AnnShop}))

ShopNext ==
    \/ \E r \in {1} :
        \/ ShopReceive(r)
        \/ CreateCheckout(r)
        \/ UpdateCheckoutRead(r)
        \/ UpdateCheckoutWrite(r)
        \/ UpdateCheckoutStatus(r)
        \/ CompleteCheckoutRead(r)
        \/ CompleteCheckoutWrite(r)
        \/ Respond(r)
    \/ \E k \in {1} :
        \/ ShopJobReceive(k)
        \/ Register(k)
        \/ RegisterSlugCheck(k)
        \/ RegisterMerchant(k)
        \/ RegisterNotification(k)
        \/ ProductsUpload(k)
        \/ ProductsJson(k)
        \/ ReplaceDelete(k)
        \/ InsertBatch(k)
        \/ CountProducts(k)
        \/ SaveProductCount(k)
        \/ ProductsMineDelete(k)
        \/ DeleteMine(k)
        \/ ZeroProductCount(k)
        \/ JobRespond(k)

ShopSpec == Init /\ [][ShopNext]_vars

\* C13: checkout sessions are apart from the catalog.  No step of an upload,
\* a purge or a registration changes the sessions table; and a call that
\* arrives for a session after a product its line items name was deleted
\* (by a replace or a purge) leaves the line items, unit prices included, as
\* they are unless it supplies new ones, and does not remove the session.
SessionsApartFromCatalog ==
    [][/\ jobs' # jobs => sessions' = sessions
       /\ \A r \in Slots :
             (Stepped(r) /\ stale[r])
             => /\ reqs[r].sid \in DOMAIN sessions'
                /\ (reqs[r].op = "complete" \/ reqs[r].body.line_items = NULL)
                   => sessions'[reqs[r].sid].line_items = sessions[reqs[r].sid].line_items]_vars

\* A session whose product is gone from the catalog has been completed, its
\* line item and unit price still in place.
SessionsApartFromCatalogWitness ==
    \E r \in Slots :
        /\ stale[r]
        /\ reqs[r].op = "complete"
        /\ reqs[r].pc = "done"
        /\ reqs[r].resp.code = 200
        /\ sessions[reqs[r].sid].status = "completed"
        /\ StoredValue(sessions[reqs[r].sid].line_items) = ArrayOf(<<Widget>>)
        /\ \A n \in 1..Len(products) : products[n].name # "Widget"

(***************************************************************************)
(* Properties of the catalog.                                              *)
(***************************************************************************)
\* The catalog request of slot k takes a step of its handler.
JobStepped(k) ==
    /\ jobs[k].pc \notin {"idle", "done"}
    /\ jobs'[k].pc # jobs[k].pc \/ jobs'[k].i # jobs[k].i

Ingesting(k) == jobs[k].op \in {"upload", "json"}

\* The upload of slot k answers 201 in this step.
Ingested(k) ==
    /\ JobStepped(k)
    /\ Ingesting(k)
    /\ jobs'[k].pc = "done"
    /\ jobs'[k].resp.code = 201

\* C14: an upload that ran with no other catalog request beside it and
\* answers 201 reports as many uploaded rows as its batch holds, has added
\* exactly the rows of the batch to the merchant's products, and leaves the
\* merchant's product_count equal to the number of its active products.
UploadCountsItsBatch ==
    [][\A k \in JobSlots :
          (Ingested(k) /\ jobs[k].alone)
          => LET j == jobs'[k]
                 m == j.merchant
             IN /\ j.resp.products_uploaded = Some(Len(j.upload.rows))
                /\ \E kept \in {<<>>, ProductsOf(j.before, m)} :
                      ProductsOf(products', m) = kept \o j.products
                /\ Len(j.products) = Len(j.upload.rows)
                /\ merchants'[m].product_count = Some(CountActive(products', m))]_vars

\* No upload and no purge is in progress.
CatalogQuiet ==
    \A k \in JobSlots : jobs[k].op \in {"upload", "json", "purge"} => jobs[k].pc = "idle"

CountIsTrue(m) == merchants[m].product_count = Some(CountActive(products, m))

\* C15: whenever no upload and no purge of a merchant is in progress, the
\* merchant's stored product_count equals the number of its active products,
\* however its uploads and purges interleaved.
ProductCountIsTrueAtRest ==
    CatalogQuiet => \A m \in DOMAIN merchants : CountIsTrue(m)

\* C16: when an upload stops because a batch insert failed, after the delete
\* of replace mode or after earlier batches went in, the merchant's stored
\* product_count equals the number of its active products in the store.
FailedInsertLeavesTrueCount ==
    [][\A k \in JobSlots :
          (JobStepped(k) /\ Ingesting(k) /\ jobs[k].pc = "insert"
             /\ jobs'[k].pc = "done" /\ jobs'[k].resp.code = 500)
          => merchants'[jobs[k].merchant].product_count
               = Some(CountActive(products', jobs[k].merchant))]_vars

\* C17 (its first sentence; the second follows from it for an empty table):
\* every product row in the store has a non-empty name, a non-negative price
\* and a non-empty url.
ProductRowsAreValid ==
    \A n \in 1..Len(products) :
        /\ products[n].name # ""
        /\ products[n].price >= 0
        /\ products[n].url # ""

\* The checks of the two routes on one record (ucp.js lines 450-458 and
\* 558-560), one by one.
Checks == {"missing name", "invalid price", "missing url"}
FailsCheck(u, n, what) ==
    LET row == IF u.format = "csv" THEN parse(u.rows)[n] ELSE u.rows[n]
        blank(cell) == IsFalsy(cell) \/ (u.format = "csv" /\ trim(The(cell).str) = "")
    IN CASE what = "missing name" -> blank(row.name)
         [] what = "invalid price" ->
              \/ isNaN(parseFloat(row.price))
              \/ u.format = "csv" /\ IsFalsy(row.price)
         [] what = "missing url" -> blank(row.url)
FailedChecks(u) ==
    {<<n, what>> \in (1..Len(u.rows)) \X Checks : FailsCheck(u, n, what)}

\* An upload that reaches the row checks: a file or an array, not empty, with
\* the required columns.
WellFormed(u) ==
    /\ Len(u.rows) > 0
    /\ u.format = "csv" => u.file /\ REQUIRED_COLUMNS \subseteq Columns(u.rows)
    /\ u.format = "json" => u.isArray

\* C18: no batch is committed in part when a row fails validation.  An
\* upload of an authenticated merchant in which some row fails one of the
\* row checks is answered 400 in the step that validates it: no product row
\* is inserted or deleted, with replace=true as without, product_count is
\* unchanged, and total_errors is the number of failed checks over all rows.
InvalidBatchWritesNothing ==
    [][\A k \in JobSlots :
          (JobStepped(k) /\ Ingesting(k) /\ jobs[k].pc = "recv"
             /\ WellFormed(jobs[k].upload) /\ FailedChecks(jobs[k].upload) # {}
             /\ jobs'[k].resp.code # 401)
          => /\ jobs'[k].pc = "done"
             /\ jobs'[k].resp.code = 400
             /\ jobs'[k].resp.total_errors = Cardinality(FailedChecks(jobs[k].upload))
             /\ products' = products
             /\ merchants' = merchants]_vars

\* A replace upload with three failed checks in two rows was refused, and
\* the merchant's earlier rows are still there.
InvalidBatchWritesNothingWitness ==
    \E k \in JobSlots :
        /\ Ingesting(k)
        /\ jobs[k].pc = "done"
        /\ jobs[k].upload.replace
        /\ jobs[k].resp.code = 400
        /\ jobs[k].resp.total_errors = 3
        /\ \E a, b \in 1..Len(jobs[k].upload.rows) :
              a # b /\ \E x, y \in Checks : {<<a, x>>, <<b, y>>} \subseteq FailedChecks(jobs[k].upload)
        /\ Len(products) > 0
        /\ products = jobs[k].before

\* An upload some record of which lacks a required column.
LacksColumn(u) ==
    \E n \in 1..Len(u.rows) : \E c \in REQUIRED_COLUMNS : u.rows[n][c] = NULL

\* C19: an upload of an authenticated merchant whose records lack a required
\* column (name, price or url) is answered 400 in the step that validates
\* it: no product row is written, none is deleted, with replace=true as
\* without, and product_count is unchanged.
MissingColumnWritesNothing ==
    [][\A k \in JobSlots :
          (JobStepped(k) /\ Ingesting(k) /\ jobs[k].pc = "recv"
             /\ LacksColumn(jobs[k].upload)
             /\ jobs'[k].resp.code # 401)
          => /\ jobs'[k].pc = "done"
             /\ jobs'[k].resp.code = 400
             /\ products' = products
             /\ merchants' = merchants]_vars

\* A replace upload without a required column was refused, and the
\* merchant's earlier rows and product_count are still there.
MissingColumnWritesNothingWitness ==
    \E k \in JobSlots :
        /\ Ingesting(k)
        /\ jobs[k].pc = "done"
        /\ LacksColumn(jobs[k].upload)
        /\ jobs[k].upload.replace
        /\ jobs[k].resp.code = 400
        /\ Len(products) > 0
        /\ products = jobs[k].before
        /\ merchants[jobs[k].merchant].product_count = Some(Len(products))

\* C20: after an upload of batch B that ran with no other catalog request
\* beside it and answers 201, the merchant's products are the rows of B alone
\* when replace=true, and the rows the catalog held when the upload arrived,
\* unchanged, followed by the rows of B otherwise.
ReplaceOrAppend ==
    [][\A k \in JobSlots :
          (Ingested(k) /\ jobs[k].alone)
          => LET j == jobs'[k]
                 A == ProductsOf(j.before, j.merchant)
                 B == UploadProducts(j.upload, j.merchant)
             IN ProductsOf(products', j.merchant)
                  = IF j.upload.replace THEN B ELSE A \o B]_vars

(***************************************************************************)
(* Two merchants: the catalog routes with the keys of both.               *)
(***************************************************************************)
BobShop == [email |-> Some(Str("bob@example.com")), store_name |-> Some(Str("Bob's Store")),
            store_url |-> Some(Str("https://bob.example"))]

\* A record with a merchant_id column of its own.
Claiming(m) == Desk @@ [merchant_id |-> Some(Str(IF m = 2 THEN "2" ELSE "1"))]

TenantUploads ==
    {CsvUpload(<<Lamp>>, FALSE)}
      \cup {JsonUpload(<<Claiming(m)>>, TRUE) : m \in MerchantIds}

TenantCalls ==
    {<<"register", NULL, NoUpload, b>> : b \in {AnnShop, BobShop}}
      \cup {<<UploadOp(u), Some(generateApiKey(m)), u, NoRegistration>> :
              u \in TenantUploads, m \in MerchantIds}
      \cup {<<"purge", Some(generateApiKey(m)), NoUpload, NoRegistration>> : m \in MerchantIds}

TenantReceive(k) == JobReceiveOf(k, TenantCalls)

\* One request at a time: a step's effect on the tables does not depend on
\* the requests beside it.
TenantNext ==
    \E k \in {1} :
        \/ TenantReceive(k)
        \/ Register(k)
        \/ RegisterSlugCheck(k)
        \/ RegisterMerchant(k)
        \/ RegisterNotification(k)
        \/ ProductsUpload(k)
        \/ ProductsJson(k)
        \/ ReplaceDelete(k)
        \/ InsertBatch(k)
        \/ CountProducts(k)
        \/ SaveProductCount(k)
        \/ ProductsMineDelete(k)
        \/ DeleteMine(k)
        \/ ZeroProductCount(k)
        \/ JobRespond(k)

TenantSpec == CatalogInit /\ [][TenantNext]_vars

\* The merchants a key names (none, or one: api_key is UNIQUE).
KeyOwners(key) == {m \in DOMAIN merchants : key = Some(merchants[m].api_key)}

\* C21: every catalog mutation is scoped to the merchant whose key the
\* request presents.  No step of an upload (append or replace) or a purge
\* inserts, deletes or changes a product row of another merchant or changes
\* another merchant's row in the merchants table, whatever the records of
\* the upload say about their owner.
ScopedToMerchant ==
    [][\A k \in JobSlots :
          (JobStepped(k) /\ jobs[k].op \in {"upload", "json", "purge"})
          => \A m \in DOMAIN merchants \ KeyOwners(jobs[k].key) :
                /\ ProductsOf(products', m) = ProductsOf(products, m)
                /\ merchants'[m] = merchants[m]]_vars

\* A replace upload whose record names the other merchant has answered 201
\* while the other merchant holds a product row.
ScopedToMerchantWitness ==
    \E k \in JobSlots : \E m \in DOMAIN merchants \ KeyOwners(jobs[k].key) :
        /\ Ingesting(k)
        /\ jobs[k].pc = "done"
        /\ jobs[k].resp.code = 201
        /\ jobs[k].upload.replace
        /\ jobs[k].upload.rows = <<Claiming(m)>>
        /\ Len(ProductsOf(jobs[k].before, m)) > 0
        /\ Len(ProductsOf(jobs[k].before, jobs[k].merchant)) > 0
        /\ ProductsOf(products, m) = ProductsOf(jobs[k].before, m)

\* The first n elements of a sequence.
Take(s, n) == SubSeq(s, 1, IF n < Len(s) THEN n ELSE Len(s))

\* C22: an upload inserts its rows batch by batch, in input order.  A step
\* of the insert loop either appends the next batch, whole and in order, to
\* the table, or fails: then the upload ends at once with 500 (no later
\* batch, no retry), the step removes no row, and inserted_so_far is the
\* number of rows the batches before it put in; when no other catalog
\* request ran beside the upload, these are exactly the rows of the request
\* that are in the store.
BatchesInOrderStopAtFailure ==
    [][\A k \in JobSlots :
          (JobStepped(k) /\ Ingesting(k) /\ jobs[k].pc = "insert")
          => LET j == jobs[k]
                 m == j.merchant
                 done == j.i
                 next == Take(j.products, done + batchSize)
             IN \/ /\ jobs'[k].pc \in {"insert", "count"}
                   /\ products' = products \o SubSeq(next, done + 1, Len(next))
                   /\ jobs'[k].i = done + batchSize
                   /\ jobs'[k].pc = "count" <=> Len(next) = Len(j.products)
                \/ /\ jobs'[k].pc = "done"
                   /\ jobs'[k].resp.code = 500
                   /\ products' = products
                   /\ jobs'[k].resp.inserted_so_far = Some(Len(Take(j.products, done)))
                   /\ j.alone =>
                        \E kept \in {<<>>, ProductsOf(j.before, m)} :
                           ProductsOf(products', m) = kept \o Take(j.products, done)]_vars

\* An upload of two batches has stopped at its second: 500, one row reported
\* and the first row of the batch, not the second, in the store.
BatchesInOrderStopAtFailureWitness ==
    \E k \in JobSlots :
        /\ Ingesting(k)
        /\ jobs[k].pc = "done"
        /\ jobs[k].resp.code = 500
        /\ jobs[k].resp.inserted_so_far = Some(1)
        /\ Len(jobs[k].products) = 2
        /\ jobs[k].alone
        /\ ProductsOf(products, jobs[k].merchant)
             = ProductsOf(jobs[k].before, jobs[k].merchant) \o <<jobs[k].products[1]>>

\* The key of the request of slot k names no active merchant: no key, an
\* unknown key, or the key of a merchant with is_active = false.
Unauthenticated(k) ==
    \A m \in KeyOwners(jobs[k].key) : ~merchants[m].is_active

\* C23: a catalog request whose key names no active merchant (no key, an
\* unknown key, the key of an inactive merchant) gets one and the same
\* response, the one an unknown key gets, and changes no row of the catalog.
UniformAuthenticationFailure ==
    [][\A k \in JobSlots :
          (JobStepped(k) /\ jobs[k].op \in {"upload", "json", "purge"}
             /\ jobs[k].pc = "recv" /\ Unauthenticated(k))
          => /\ jobs'[k].pc = "done"
             /\ jobs'[k].resp = AuthFailure(Some(generateApiKey(0)))
             /\ products' = products
             /\ merchants' = merchants]_vars

(***************************************************************************)
(* Registrations that overlap: two emails, two store names of one slug.    *)
(***************************************************************************)
AmyShop == [email |-> Some(Str("amy@example.com")), store_name |-> Some(Str("ANN shop!")),
            store_url |-> Some(Str("https://amy.example"))]

RegistrationCalls == {<<"register", NULL, NoUpload, b>> : b \in {AnnShop, AmyShop, NoStoreUrl}}

RegistrationReceive(k) == JobReceiveOf(k, RegistrationCalls)

RegistrationNext ==
    \E k \in JobSlots :
        \/ RegistrationReceive(k)
        \/ Register(k)
        \/ RegisterSlugCheck(k)
        \/ RegisterMerchant(k)
        \/ RegisterNotification(k)
        \/ JobRespond(k)

RegistrationSpec == CatalogInit /\ [][RegistrationNext]_vars

\* No two merchants of the table M share an email, a slug or an API key.
MerchantsDistinct(M) ==
    \A a, b \in DOMAIN M :
        a # b => /\ M[a].email # M[b].email
                 /\ M[a].slug # M[b].slug
                 /\ M[a].api_key # M[b].api_key

\* The merchants that hold the email, or the derived slug, of the
\* registration of slot k.
EmailHolders(k) == {m \in DOMAIN merchants : Some(merchants[m].email) = jobs[k].body.email}
SlugHolders(k) ==
    {m \in DOMAIN merchants :
        merchants[m].slug = generateSlug(The(jobs[k].body.store_name).str)}

\* C24: no two merchants ever share an email, a slug or an API key.  A
\* registration with all three fields that ends while a merchant holds its email ends with 409 and
\* creates no merchant; a registration that comes to its insert while
\* another merchant holds the slug derived from its store name creates its
\* merchant under a different slug and leaves the other merchant's slug as
\* it is.  Registrations may overlap.
RegistrationKeepsMerchantsDistinct ==
    [][/\ MerchantsDistinct(merchants')
       /\ \A k \in JobSlots :
             (JobStepped(k) /\ jobs[k].op = "register" /\ jobs[k].merchant = 0
                /\ jobs[k].body \in {AnnShop, AmyShop})
             => /\ (jobs'[k].pc = "done" /\ EmailHolders(k) # {})
                   => /\ jobs'[k].resp.code = 409
                      /\ merchants' = merchants
                /\ (jobs[k].pc = "insert" /\ EmailHolders(k) = {} /\ SlugHolders(k) # {})
                   => /\ jobs'[k].pc = "notify"
                      /\ merchants'[jobs'[k].merchant].slug
                           \notin {merchants[m].slug : m \in DOMAIN merchants}
                      /\ \A m \in DOMAIN merchants : merchants'[m].slug = merchants[m].slug]_vars

FeedSlugs == {generateSlug("Ann Shop"), generateSlug("Bob's Store"), Slug("nobody", "")}

\* page and limit of the query strings: absent, zero, negative, above the
\* cap, not a number, and pages within and past the result.
Paging ==
    {<<NULL, NULL>>, <<NULL, Some("2")>>, <<Some("2"), Some("2")>>, <<Some("3"), Some("2")>>,
     <<Some("2"), Some("1")>>, <<Some("0"), Some("0")>>, <<Some("-1"), NULL>>,
     <<NULL, Some("-5")>>, <<Some("1"), Some("600")>>, <<Some("abc"), Some("abc")>>}

\* Every paging of Ann's feed, and the first page of the others.
FeedQueries ==
    {Query(generateSlug("Ann Shop"), pl[1], pl[2], NULL) : pl \in Paging}
      \cup {Query(generateSlug("Ann Shop"), NULL, l, Some("lamp")) : l \in {NULL, Some("1")}}
      \cup {Query(s, NULL, NULL, NULL) : s \in FeedSlugs}

FeedUploads == {CsvUpload(<<Lamp>>, FALSE), JsonUpload(<<Desk, Lamp>>, TRUE)}

FeedCalls ==
    {<<"register", NULL, NoUpload, b>> : b \in {AnnShop, BobShop}}
      \cup {<<UploadOp(u), Some(generateApiKey(1)), u, NoRegistration>> : u \in FeedUploads}
      \cup {<<"upload", Some(generateApiKey(2)), CsvUpload(<<Lamp>>, FALSE), NoRegistration>>}
      \cup {<<"purge", Some(generateApiKey(1)), NoUpload, NoRegistration>>}
      \cup {<<"profile", NULL, NoUpload, Query(s, NULL, NULL, NULL)>> : s \in FeedSlugs}
      \cup {<<"merchants", NULL, NoUpload, Query(Slug("", ""), NULL, NULL, NULL)>>}
      \cup {<<"feed", NULL, NoUpload, q>> : q \in FeedQueries}
      \cup {<<"mine", Some(generateApiKey(1)), NoUpload, Query(Slug("", ""), pl[1], pl[2], NULL)>> :
              pl \in Paging}
      \cup {<<"mine", key, NoUpload, Query(Slug("", ""), NULL, NULL, NULL)>> :
              key \in Keys \cup {Some(generateApiKey(2))}}

FeedReceive(k) == JobReceiveOf(k, FeedCalls)

MerchantProfile(k) == JobAt(k, {"profile"}, "recv") /\ JobStep(k)
MerchantsListing(k) == JobAt(k, {"merchants"}, "recv") /\ JobStep(k)
ProductFeed(k) == JobAt(k, {"feed"}, "recv") /\ JobStep(k)
FeedPage(k) == JobAt(k, {"feed"}, "select") /\ JobStep(k)
ProductsMine(k) == JobAt(k, {"mine"}, "recv") /\ JobStep(k)
MinePage(k) == JobAt(k, {"mine"}, "select") /\ JobStep(k)

\* The analytics insert of a feed request ends while the response is on its
\* way; it may as well end later, or never.
AnalyticsInsert(k) ==
    /\ jobs[k].op = "feed"
    /\ jobs[k].pc = "done"
    /\ "insert" \in DOMAIN jobs[k]
    /\ jobs[k].insert = "pending"
    /\ \E ok \in StoreResults : jobs' = [jobs EXCEPT ![k] = AnalyticsSettled(jobs[k], ok)]
    /\ UNCHANGED <<merchants, products, orphans, checkout>>

\* No route writes is_active; the operator of the service clears it in the
\* store, between two requests.
Deactivate(m) ==
    /\ Running = {}
    /\ m \in DOMAIN merchants
    /\ merchants[m].is_active
    /\ merchants' = [merchants EXCEPT ![m].is_active = FALSE]
    /\ UNCHANGED <<products, jobs, orphans, checkout>>

FeedNext ==
    \/ \E k \in {1} :
          \/ FeedReceive(k)
          \/ Register(k)
          \/ RegisterSlugCheck(k)
          \/ RegisterMerchant(k)
          \/ RegisterNotification(k)
          \/ ProductsUpload(k)
          \/ ProductsJson(k)
          \/ ReplaceDelete(k)
          \/ InsertBatch(k)
          \/ CountProducts(k)
          \/ SaveProductCount(k)
          \/ ProductsMineDelete(k)
          \/ DeleteMine(k)
          \/ ZeroProductCount(k)
          \/ MerchantProfile(k)
          \/ MerchantsListing(k)
          \/ ProductFeed(k)
          \/ FeedPage(k)
          \/ AnalyticsInsert(k)
          \/ ProductsMine(k)
          \/ MinePage(k)
          \/ JobRespond(k)
    \/ \E m \in MerchantIds : Deactivate(m)

FeedSpec == CatalogInit /\ [][FeedNext]_vars

\* C26: the merchant listing holds a merchant if and only if the merchant is
\* active and owns at least one active product in the store.  Whenever the
\* listing is answered, between two other requests, the merchants it names
\* are exactly those.
ListingIsActiveWithProducts ==
    \A k \in JobSlots :
        (jobs[k].op = "merchants" /\ jobs[k].pc = "done" /\ jobs[k].resp.code = 200)
        => jobs[k].resp.listed
             = {m \in DOMAIN merchants :
                  merchants[m].is_active /\ CountActive(products, m) > 0}

\* The merchants a slug names, active or not (none, or one: slug is UNIQUE).
SlugOwners(slug) == {m \in DOMAIN merchants : merchants[m].slug = slug}

\* C27: the merchant profile and the product feed of a slug answer 404 when
\* no merchant has the slug or the merchant has is_active = false, and the
\* answer then holds nothing of the merchant: no profile, no item, no count.
UnknownOrInactiveSlugIs404 ==
    \A k \in JobSlots :
        (/\ jobs[k].op \in {"profile", "feed"}
         /\ jobs[k].pc = "done"
         /\ \A m \in SlugOwners(jobs[k].body.slug) : ~merchants[m].is_active)
        => /\ jobs[k].resp.code = 404
           /\ jobs[k].resp.error = "Merchant not found"
           /\ jobs[k].resp.profile = NULL
           /\ jobs[k].resp.items = <<>>
           /\ jobs[k].resp.total = 0

\* The feed of a deactivated merchant who owns products has been answered
\* 404.
UnknownOrInactiveSlugIs404Witness ==
    \E k \in JobSlots :
        /\ jobs[k].op = "feed"
        /\ jobs[k].pc = "done"
        /\ jobs[k].resp.code = 404
        /\ \E m \in SlugOwners(jobs[k].body.slug) :
              ~merchants[m].is_active /\ CountActive(products, m) > 0

\* The merchant a read addresses: by the slug of the path, or by its key.
Addressed(k) ==
    IF jobs[k].op = "feed" THEN SlugOwners(jobs[k].body.slug) ELSE KeyOwners(jobs[k].key)

\* The rows of the table a read is to count: those of merchant m that are
\* active and, for a search, carry the searched name.
Matching(k, m) ==
    {n \in 1..Len(products) :
        /\ products[n].merchant_id = m
        /\ products[n].active
        /\ (jobs[k].body.q # NULL => ilike(products[n].name, The(jobs[k].body.q)))}

\* C28: catalog reads are tenant-scoped.  A page of the product feed of a
\* slug, or of GET /api/products/mine, holds only active products of the
\* merchant the slug or the key names, and its total is the number of that
\* merchant's active products that match the search, whatever page and limit
\* the request gives.
ReadsScopedToMerchant ==
    \A k \in JobSlots :
        (jobs[k].op \in {"feed", "mine"} /\ jobs[k].pc = "done" /\ jobs[k].resp.code = 200)
        => /\ Addressed(k) = {jobs[k].merchant}
           /\ \A n \in 1..Len(jobs[k].resp.items) :
                 /\ jobs[k].resp.items[n].merchant_id = jobs[k].merchant
                 /\ jobs[k].resp.items[n].active
                 /\ \E r \in Matching(k, jobs[k].merchant) : products[r] = jobs[k].resp.items[n]
           /\ jobs[k].resp.total = Cardinality(Matching(k, jobs[k].merchant))

\* A search of Ann's feed has answered one item of a total of one while Ann
\* owns another product and Bob owns one of the searched name.
ReadsScopedToMerchantWitness ==
    \E k \in JobSlots :
        /\ jobs[k].op = "feed"
        /\ jobs[k].pc = "done"
        /\ jobs[k].resp.code = 200
        /\ jobs[k].body.q = Some("lamp")
        /\ Len(jobs[k].resp.items) = 1
        /\ jobs[k].resp.total = 1
        /\ CountActive(products, jobs[k].merchant) = 2
        /\ \E m \in DOMAIN merchants \ {jobs[k].merchant} :
              \E n \in 1..Len(products) :
                  products[n].merchant_id = m /\ products[n].name = "Lamp"

\* The feed requests whose select of the page the store has answered.
FeedAnswered(k) ==
    /\ jobs[k].op = "feed"
    /\ jobs[k].pc = "done"
    /\ "fault" \in DOMAIN jobs[k]
    /\ ~jobs[k].fault

\* n is the ceiling of total / limit: n - 1 < total / limit <= n.
IsCeiling(n, total, limit) ==
    IF limit > 0 THEN (n - 1) * limit < total /\ total <= n * limit
    ELSE (n - 1) * limit > total /\ total >= n * limit

EffectivePagingInRange ==
    \A k \in JobSlots :
        /\ (jobs[k].op = "feed" /\ jobs[k].pc = "select")
           => LET page == PageOf(jobs[k].body)
                  limit == FeedLimit(jobs[k].body)
              IN  /\ limit \in 1..500
                  /\ jobs[k].body.limit = NULL => limit = 100
                  /\ page >= 1
                  /\ jobs[k].body.page = NULL => page = 1
                  /\ Offset(page, limit) >= 0
        /\ (jobs[k].op = "feed" /\ jobs[k].pc = "done" /\ jobs[k].resp.code = 200)
           => Len(jobs[k].resp.items) <= 500

(***************************************************************************)
(* A client that reads a feed page by page: it requests the first page and *)
(* follows the `next` link of each response.  One request at a time, so    *)
(* the catalog does not change during the walk.                            *)
(***************************************************************************)
\* The first requests of a walk: page 1 of Ann's feed, with and without a
\* search, with a limit of 1, of 2, and the default.
CrawlQueries ==
    {Query(generateSlug("Ann Shop"), page, limit, q) :
        page \in {NULL, Some("1")}, limit \in {NULL, Some("1"), Some("2")},
        q \in {NULL, Some("lamp")}}

CrawlCalls ==
    {<<"register", NULL, NoUpload, AnnShop>>}
      \cup {<<UploadOp(u), Some(generateApiKey(1)), u, NoRegistration>> : u \in FeedUploads}

CrawlReceive(k) == JobReceiveOf(k, CrawlCalls)

\* The first page of a walk is requested: the job keeps the first request
\* and the items gathered so far.
CrawlStart(k) ==
    /\ ~JobResponding
    /\ jobs[k].pc = "idle"
    /\ \A other \in JobSlots : jobs[other].pc = "idle" => k <= other
    /\ \E q \in CrawlQueries :
          jobs' = [jobs EXCEPT ![k] =
                     Job("feed", "recv", NULL, NoUpload, q, products, Running = {})
                       @@ [first |-> q, gathered |-> <<>>]]
    /\ UNCHANGED <<merchants, products, orphans, checkout>>

\* The client takes the response and requests the page its `next` link
\* names.
Follow(k) ==
    /\ jobs[k].op = "feed"
    /\ jobs[k].pc = "done"
    /\ jobs[k].resp.code = 200
    /\ jobs[k].resp.next # NULL
    /\ jobs' = [jobs EXCEPT ![k] =
                  Job("feed", "recv", NULL, NoUpload, The(jobs[k].resp.next), products, TRUE)
                    @@ [first |-> jobs[k].first,
                        gathered |-> jobs[k].gathered \o jobs[k].resp.items]]
    /\ UNCHANGED <<merchants, products, orphans, checkout>>

CrawlNext ==
    \E k \in {1} :
        \/ CrawlReceive(k)
        \/ CrawlStart(k)
        \/ Follow(k)
        \/ Register(k)
        \/ RegisterSlugCheck(k)
        \/ RegisterMerchant(k)
        \/ RegisterNotification(k)
        \/ ProductsUpload(k)
        \/ ProductsJson(k)
        \/ ReplaceDelete(k)
        \/ InsertBatch(k)
        \/ CountProducts(k)
        \/ SaveProductCount(k)
        \/ ProductFeed(k)
        \/ FeedPage(k)
        \/ JobRespond(k)

CrawlSpec == CatalogInit /\ [][CrawlNext]_vars

\* How often row r occurs in a sequence of rows.
Occurrences(rows, r) == Cardinality({n \in 1..Len(rows) : rows[n] = r})

\* A walk has ended: the last response carries no `next` link.
WalkEnded(k) ==
    /\ jobs[k].op = "feed"
    /\ jobs[k].pc = "done"
    /\ jobs[k].resp.code = 200
    /\ jobs[k].resp.next = NULL

\* The products the first request of the walk asks for.
Wanted(k, r) ==
    /\ r.merchant_id = jobs[k].merchant
    /\ r.active
    /\ (jobs[k].first.q # NULL => ilike(r.name, The(jobs[k].first.q)))

\* C31: a feed response carries a `next` link exactly when more pages exist,
\* and a walk from page 1 along the `next` links, with an unchanged catalog,
\* returns every product that matches the first request (same merchant, same
\* search, same limit) exactly once.
NextLinksCoverTheResult ==
    \A k \in JobSlots :
        /\ (jobs[k].op = "feed" /\ jobs[k].pc = "done" /\ jobs[k].resp.code = 200)
           => /\ jobs[k].resp.next # NULL <=> jobs[k].resp.page < jobs[k].resp.total_pages
              /\ jobs[k].resp.limit = FeedLimit(jobs[k].first)
        /\ WalkEnded(k)
           => LET all == jobs[k].gathered \o jobs[k].resp.items
              IN  \A r \in {products[n] : n \in 1..Len(products)}
                            \cup {all[n] : n \in 1..Len(all)} :
                      Occurrences(all, r)
                        = IF Wanted(k, r) THEN Occurrences(products, r) ELSE 0

\* The analytics insert of the feed request of slot k is in flight or over.
Logging(k) == jobs[k].op = "feed" /\ jobs[k].pc = "done" /\ "insert" \in DOMAIN jobs[k]

\* C32: a failing analytics write never changes the outcome of a feed read.
\* The response of a feed request is ready while its analytics insert is
\* still in flight, and it is the same response after the insert has been
\* stored or has failed.
AnalyticsNeverReachesCaller ==
    [][\A k \in JobSlots :
          /\ (jobs[k].op = "feed" /\ jobs[k].pc = "select"
                /\ jobs'[k].pc = "done" /\ jobs'[k].resp.code = 200)
             => jobs'[k].insert = "pending"
          /\ (Logging(k) /\ jobs'[k].op = "feed" /\ jobs'[k].insert # jobs[k].insert)
             => /\ jobs'[k].pc = "done"
                /\ jobs'[k].resp = jobs[k].resp]_vars

\* A feed request with items has its response, of status 200, after its
\* analytics insert failed.
AnalyticsNeverReachesCallerWitness ==
    \E k \in JobSlots :
        /\ Logging(k)
        /\ jobs[k].insert = "failed"
        /\ jobs[k].resp.code = 200
        /\ Len(jobs[k].resp.items) > 0

\* C33: in the Remix handlers, a complete call that succeeds while an update
\* call on the same session is in flight, after the update wrote its fields
\* and before it writes the recomputed status, leaves the session completed
\* with its order id: the late status write of the update does not take the
\* session out of completed.
LateStatusWriteKeepsCompleted ==
    [][\A r \in Slots :
          (/\ server = "remix"
           /\ Stepped(r)
           /\ reqs[r].op = "update"
           /\ reqs[r].pc = "status"
           /\ sessions[reqs[r].sid].status = "completed")
          => /\ sessions'[reqs[r].sid].status = "completed"
             /\ sessions'[reqs[r].sid].shopify_order_id
                  = sessions[reqs[r].sid].shopify_order_id]_vars

(***************************************************************************)
(* Two replace uploads of one merchant that overlap, on a catalog that     *)
(* holds a row from before.                                                *)
(***************************************************************************)
\* The row from before, and the two batches B and C.
EarlierUpload == JsonUpload(<<WidgetRow>>, FALSE)
ReplaceUploads == {CsvUpload(<<Desk, Lamp>>, TRUE), JsonUpload(<<Lamp>>, TRUE)}

ReplaceCalls ==
    {<<"register", NULL, NoUpload, AnnShop>>}
      \cup {<<UploadOp(u), Some(generateApiKey(1)), u, NoRegistration>> :
              u \in ReplaceUploads \cup {EarlierUpload}}

\* The earlier upload is served on an empty table with no request beside
\* it; a replace upload while the table has room for its rows.
ReplaceServed(call) ==
    IF call[3] = EarlierUpload THEN Running = {} /\ products = <<>>
    ELSE JobServed(call)

ReplaceReceive(k) ==
    /\ ~JobResponding
    /\ jobs[k].pc = "idle"
    /\ \A other \in JobSlots : jobs[other].pc = "idle" => k <= other
    /\ \E call \in ReplaceCalls :
          /\ ReplaceServed(call)
          /\ jobs' = [o \in JobSlots |->
                        IF o = k
                        THEN Job(call[1], "recv", call[2], call[3], call[4],
                                 products, Running = {})
                        ELSE IF o \in Running THEN [jobs[o] EXCEPT !.alone = FALSE]
                        ELSE jobs[o]]
    /\ UNCHANGED <<merchants, products, orphans, checkout>>

\* The response leaves; a replace upload still running beside it keeps, for
\* the properties, the status its peer answered.
ReplaceRespond(k) ==
    /\ jobs[k].pc = "done"
    /\ jobs' = [o \in JobSlots |->
                  IF o = k THEN IdleJob
                  ELSE IF o \in Running /\ jobs[k].upload \in ReplaceUploads
                       THEN [peer |-> jobs[k].resp.code] @@ jobs[o]
                       ELSE jobs[o]]
    /\ UNCHANGED <<merchants, products, orphans, checkout>>

ReplaceNext ==
    \E k \in JobSlots :
        \/ ReplaceReceive(k)
        \/ Register(k)
        \/ RegisterSlugCheck(k)
        \/ RegisterMerchant(k)
        \/ RegisterNotification(k)
        \/ ProductsUpload(k)
        \/ ProductsJson(k)
        \/ ReplaceDelete(k)
        \/ InsertBatch(k)
        \/ CountProducts(k)
        \/ SaveProductCount(k)
        \/ ReplaceRespond(k)

ReplaceSpec == CatalogInit /\ [][ReplaceNext]_vars

\* Both of two overlapping replace uploads have reported success: the one of
\* slot k answers 201 after its peer did.
BothReplaced(k) ==
    /\ jobs[k].pc = "done"
    /\ jobs[k].upload \in ReplaceUploads
    /\ jobs[k].resp.code = 201
    /\ "peer" \in DOMAIN jobs[k]
    /\ jobs[k].peer = 201

\* C34: two replace uploads B and C of one merchant that run concurrently
\* are not isolated from each other, but however their delete and insert
\* steps interleave, once both have reported success none of the rows the
\* catalog held before either request is left.
OverlappingReplacesDropEarlierRows ==
    \A k \in JobSlots :
        BothReplaced(k) => \A n \in 1..Len(products) : products[n].name # "Widget"

\* After both reported success the catalog holds the rows of both batches.
BothBatchesStored ==
    \E k \in JobSlots :
        /\ BothReplaced(k)
        /\ Len(products) = 3
        /\ \A n \in 1..Len(products) : products[n].name # "Widget"

\* After both reported success the catalog holds C and part of B only.
PartOfABatchStored ==
    \E k \in JobSlots :
        /\ BothReplaced(k)
        /\ Len(products) = 2
        /\ \A n \in 1..Len(products) : products[n].name = "Lamp"

(***************************************************************************)
(* Calls that edit the line items of a session.                            *)
(***************************************************************************)
\* Creates of every kind, updates that carry line_items (an empty array, an
\* array of one item, no array, an item that fails the schema), an update of
\* the three fields, and complete.
EditCalls ==
    {<<"create", 0, body>> : body \in CreateBodies}
      \cup {<<"update", id, Body(li, NULL, NULL, NULL, NULL)>> :
              id \in SessionIds, li \in LineItemsInputs \ {NULL}}
      \cup {<<"update", id, Body(NULL, Some(Ann), Some(Home), Some(Token), NULL)>> :
              id \in SessionIds}
      \cup {<<"complete", id, NoBody>> : id \in SessionIds}

EditReceive(r) == ReceiveOf(r, EditCalls)

EditNext ==
    \E r \in Slots :
        \/ EditReceive(r)
        \/ CreateCheckout(r)
        \/ UpdateCheckoutRead(r)
        \/ UpdateCheckoutWrite(r)
        \/ UpdateCheckoutStatus(r)
        \/ CompleteCheckoutRead(r)
        \/ CompleteCheckoutWrite(r)
        \/ Respond(r)

EditSpec == Init /\ [][EditNext]_vars

\* C35: every stored checkout session has a non-empty list of line items in
\* every reachable state: no update call replaces the line items of a
\* session with an empty list.
LineItemsNeverEmpty ==
    \A id \in DOMAIN sessions :
        /\ StoredValue(sessions[id].line_items).isArray
        /\ Len(StoredValue(sessions[id].line_items).elems) >= 1

\* C36: a session's buyer_info, shipping_address and payment_method, once
\* set, are never cleared by a later call, and the status of a session never
\* moves from ready_for_complete back to incomplete.
FieldsOnceSetStay ==
    [][\A id \in DOMAIN sessions :
          /\ id \in DOMAIN sessions'
          /\ sessions[id].buyer_info # NULL => sessions'[id].buyer_info # NULL
          /\ sessions[id].shipping_address # NULL => sessions'[id].shipping_address # NULL
          /\ sessions[id].payment_method # NULL => sessions'[id].payment_method # NULL
          /\ sessions[id].status = "ready_for_complete"
             => sessions'[id].status # "incomplete"]_vars

\* An update that carries the buyer alone has been answered 200 on a session
\* that holds the three fields and is ready_for_complete.
FieldsOnceSetStayWitness ==
    \E r \in Slots :
        /\ reqs[r].op = "update"
        /\ reqs[r].pc = "done"
        /\ reqs[r].resp.code = 200
        /\ reqs[r].body.buyer_info # NULL
        /\ reqs[r].body.shipping_address = NULL
        /\ reqs[r].body.payment_method = NULL
        /\ reqs[r].sid \in DOMAIN sessions
        /\ sessions[reqs[r].sid].shipping_address # NULL
        /\ sessions[reqs[r].sid].payment_method # NULL
        /\ sessions[reqs[r].sid].status = "ready_for_complete"

====
